---- MODULE Spec2Model ----
(***************************************************************************)
(* Model of the meeting pipeline of youtube-dloader:                       *)
(*   app/services/transcription.py  TranscriptionService,                  *)
(*                                  MeetingAnalysisService                 *)
(*   analyze_transcript_fixed.py    analyze_transcript (CLI)               *)
(*   generate_newsletter.py         generate_newsletter_content            *)
(*   app/services/transcription.py  MeetingProcessor.process_meeting_file  *)
(*   test_meeting_pipeline.py       main, test_meeting_pipeline            *)
(*   app/main.py, app/api/*.py      the routes and their endpoints         *)
(*   app/services/downloader.py     YouTubeDownloader                      *)
(* One invocation runs at a time (the code is a sequential pipeline): it  *)
(* starts from pc = "idle", ends in pc = "returned" or pc = "raised", and  *)
(* Finish drops its locals.  Only the files on disk outlive it.  The file  *)
(* a path names does not change while an invocation runs.                  *)
(* An operation that awaits another one pushes itself on stack and takes   *)
(* over again when the awaited operation has returned.                     *)
(* A transcript is a text of words whose characters are counted; sent     *)
(* keeps the requests made to the chat endpoint by the analysis and by a   *)
(* section generator called twice on the same inputs.                      *)
(***************************************************************************)
EXTENDS Integers, Sequences, FiniteSets, TLC

VARIABLES
    pc,                 \* position of the running invocation
    op,                 \* name of the running (or last) operation
    fileExists,         \* Path(file_path).exists()
    fileSize,           \* Path(file_path).stat().st_size
    meeting_info,       \* the meeting_info argument
    transcript_result,  \* local of transcribe_meeting
    result,             \* value returned by the operation
    stt_call,           \* what audio.transcriptions.create did in this invocation
    trace,              \* external calls issued by the invocation, in order
    transcript,         \* the transcript given to the analysis
    api_key,            \* whether OPENAI_API_KEY is set
    chat_call,          \* what chat.completions.create did in analyze_transcript
    analysis_file,      \* content of the analysis file on disk
    data,               \* what generate_newsletter_content loaded from the file
    newsletter_sections,\* the section mapping being built
    gen_calls,          \* what chat.completions.create did, per section
    display,            \* what display_newsletter_content printed
    newsletter_file,    \* what save_newsletter_content wrote
    stack,              \* the callers of the running operation, outermost first
    pm_transcript_result, \* local transcript_result of process_meeting_file
    printed,            \* what test_meeting_pipeline.py printed
    request,            \* the HTTP request being served
    response,           \* the HTTP response to it
    written,            \* the acquisitions done so far: {source URL, local path}
    dirExists,          \* os.path.exists("downloads")
    dirFiles,           \* os.listdir("downloads") with each file's size
    sent                \* the requests made to chat.completions.create by the
                        \* analysis and by a section generator called on its own

vars == <<pc, op, fileExists, fileSize, meeting_info, transcript_result,
          result, stt_call, trace, transcript, api_key, chat_call,
          analysis_file, data, newsletter_sections, gen_calls, display,
          newsletter_file, stack, pm_transcript_result, printed, request,
          response, written, dirExists, dirFiles, sent>>

\* The variables of process_meeting_file and of its runner
pmVars == <<stack, pm_transcript_result, printed>>

\* The variables of the download API
dlVars == <<request, response, written, dirExists, dirFiles>>

\* The variables of the pipeline runner and of the HTTP API together
xVars == <<pmVars, dlVars>>

\* The variables of generate_newsletter_content
nlVars == <<data, newsletter_sections, gen_calls, display, newsletter_file>>

\* The variables of transcribe_meeting's file and endpoint
tmVars == <<fileSize, transcript_result, stt_call>>

\* The variables of the analysis and of the newsletter
anVars == <<transcript, api_key, chat_call>>

\* Python None where a string is expected
None == "<None>"
\* Python None where a number is expected; a number d is <<d>>
NoneNum == <<>>
Some(d) == <<d>>

----------------------------------------------------------------------------
(* Texts, JSON values, json.loads and json.dumps                           *)
(* A text (a Python str) is a sequence of tokens.  A token is a            *)
(* punctuation mark, a bare word (a number, null, or prose that is no      *)
(* JSON) or a quoted string literal, whose field sub is the text between   *)
(* the quotes.  A value is a record with the fields t (its Python type),   *)
(* s (the text of a str, the digits of a number), ks (the keys of a dict,  *)
(* in insertion order) and items (the elements of a list or the values of  *)
(* a dict, aligned with ks).                                               *)

P(sym) == [k |-> "punct", w |-> sym, sub |-> <<>>]
W(word) == [k |-> "word", w |-> word, sub |-> <<>>]
Quoted(text) == [k |-> "string", w |-> "", sub |-> text]

\* The text of a one-word str
Str(word) == <<W(word)>>

JNull == [t |-> "null", s |-> <<>>, ks |-> <<>>, items |-> <<>>]
JStr(text) == [t |-> "str", s |-> text, ks |-> <<>>, items |-> <<>>]
JNum(digits) == [t |-> "num", s |-> Str(digits), ks |-> <<>>, items |-> <<>>]
JList(items) == [t |-> "list", s |-> <<>>, ks |-> <<>>, items |-> items]
JDict(ks, items) == [t |-> "dict", s |-> <<>>, ks |-> ks, items |-> items]

\* The str value of a one-word string
S(word) == JStr(Str(word))

\* Bare words that are JSON numbers: digits, without a leading zero
NumLits ==
    {w \in STRING :
        /\ w # ""
        /\ \A i \in 1..Len(w) :
              SubSeq(w, i, i) \in {"0", "1", "2", "3", "4", "5", "6", "7", "8", "9"}
        /\ Len(w) > 1 => SubSeq(w, 1, 1) # "0"}

\* d[k] = v on a dict value: a new key is appended, an old one overwritten
DictPut(d, k, v) ==
    IF \E i \in 1..Len(d.ks) : d.ks[i] = k
    THEN LET i == CHOOSE j \in 1..Len(d.ks) : d.ks[j] = k
         IN JDict(d.ks, [d.items EXCEPT ![i] = v])
    ELSE JDict(Append(d.ks, k), Append(d.items, v))

\* k in d
HasKey(d, k) == d.t = "dict" /\ \E i \in 1..Len(d.ks) : d.ks[i] = Str(k)

\* d.get(k, default)
DictGet(d, k, default) ==
    IF HasKey(d, k)
    THEN d.items[CHOOSE j \in 1..Len(d.ks) : d.ks[j] = Str(k)]
    ELSE default

\* bool(v)
Truthy(v) ==
    CASE v.t = "null" -> FALSE
      [] v.t = "str" -> v.s # <<>>
      [] v.t = "num" -> v.s # Str("0")
      [] v.t = "list" -> v.items # <<>>
      [] v.t = "dict" -> v.ks # <<>>

ParseFail == [ok |-> FALSE, val |-> JNull, next |-> 0]

RECURSIVE ParseValue(_, _), ParseItems(_, _, _), ParseMembers(_, _, _)

\* The JSON value that starts at token i, and the index after it
ParseValue(toks, i) ==
    IF i > Len(toks) THEN ParseFail
    ELSE IF toks[i].k = "string"
         THEN [ok |-> TRUE, val |-> JStr(toks[i].sub), next |-> i + 1]
    ELSE IF toks[i].k = "word" /\ toks[i].w \in NumLits
         THEN [ok |-> TRUE, val |-> JNum(toks[i].w), next |-> i + 1]
    ELSE IF toks[i] = W("null")
         THEN [ok |-> TRUE, val |-> JNull, next |-> i + 1]
    ELSE IF toks[i] = P("[")
         THEN IF i + 1 <= Len(toks) /\ toks[i + 1] = P("]")
              THEN [ok |-> TRUE, val |-> JList(<<>>), next |-> i + 2]
              ELSE ParseItems(toks, i + 1, <<>>)
    ELSE IF toks[i] = P("{")
         THEN IF i + 1 <= Len(toks) /\ toks[i + 1] = P("}")
              THEN [ok |-> TRUE, val |-> JDict(<<>>, <<>>), next |-> i + 2]
              ELSE ParseMembers(toks, i + 1, JDict(<<>>, <<>>))
    ELSE ParseFail

\* The elements of a list from token i on, after the elements in acc
ParseItems(toks, i, acc) ==
    LET v == ParseValue(toks, i)
    IN IF ~v.ok \/ v.next > Len(toks) THEN ParseFail
       ELSE IF toks[v.next] = P(",")
            THEN ParseItems(toks, v.next + 1, Append(acc, v.val))
       ELSE IF toks[v.next] = P("]")
            THEN [ok |-> TRUE, val |-> JList(Append(acc, v.val)), next |-> v.next + 1]
       ELSE ParseFail

\* The members of a dict from token i on, after the members in acc
ParseMembers(toks, i, acc) ==
    IF i + 1 > Len(toks) \/ toks[i].k # "string" \/ toks[i + 1] # P(":")
    THEN ParseFail
    ELSE LET v == ParseValue(toks, i + 2)
         IN IF ~v.ok \/ v.next > Len(toks) THEN ParseFail
            ELSE IF toks[v.next] = P(",")
                 THEN ParseMembers(toks, v.next + 1, DictPut(acc, toks[i].sub, v.val))
            ELSE IF toks[v.next] = P("}")
                 THEN [ok |-> TRUE, val |-> DictPut(acc, toks[i].sub, v.val),
                       next |-> v.next + 1]
            ELSE ParseFail

\* message.content of a message that has none (Python None)
NoneText == <<[k |-> "none", w |-> "", sub |-> <<>>]>>

\* json.loads(text): the value, or the exception it raises
json_loads(text) ==
    IF text = NoneText
    THEN [status |-> "TypeError", val |-> JNull]
    ELSE LET v == ParseValue(text, 1)
         IN IF v.ok /\ v.next = Len(text) + 1
            THEN [status |-> "ok", val |-> v.val]
            ELSE [status |-> "JSONDecodeError", val |-> JNull]

RECURSIVE json_dumps(_), DumpItems(_, _), DumpMembers(_, _)

\* json.dumps(value): a str is written between quotes
json_dumps(v) ==
    CASE v.t = "null" -> <<W("null")>>
      [] v.t = "str" -> <<Quoted(v.s)>>
      [] v.t = "num" -> v.s
      [] v.t = "list" -> <<P("[")>> \o DumpItems(v.items, 1) \o <<P("]")>>
      [] v.t = "dict" -> <<P("{")>> \o DumpMembers(v, 1) \o <<P("}")>>

DumpItems(items, i) ==
    IF i > Len(items) THEN <<>>
    ELSE json_dumps(items[i])
         \o (IF i < Len(items) THEN <<P(",")>> ELSE <<>>)
         \o DumpItems(items, i + 1)

DumpMembers(d, i) ==
    IF i > Len(d.ks) THEN <<>>
    ELSE <<Quoted(d.ks[i]), P(":")>> \o json_dumps(d.items[i])
         \o (IF i < Len(d.ks) THEN <<P(",")>> ELSE <<>>)
         \o DumpMembers(d, i + 1)

----------------------------------------------------------------------------
(* TranscriptionService                                                    *)

\* A ceiling written one mebibyte too high
max_file_size_26 == 26 * 1024 * 1024

\* self.max_file_size = 25 * 1024 * 1024
max_file_size == 25 * 1024 * 1024

MiB == 1024 * 1024

\* f"{size / 1024 / 1024:.1f}": the size in MiB rounded to one decimal,
\* round-half-to-even as Python formats an exactly representable tie.
\* The value is <<whole, tenth>>.
FormatMB(size) ==
    LET q == (size * 10) \div MiB
        r == (size * 10) % MiB
        half == MiB \div 2
        tenths == IF r > half THEN q + 1
                  ELSE IF r < half THEN q
                  ELSE IF q % 2 = 0 THEN q ELSE q + 1
    IN <<tenths \div 10, tenths % 10>>

\* datetime.now().isoformat()
Now == "2025-08-12T14:57:41"

\* A cost that bills one unit of duration when none is reported
_calculate_cost_Minimum(duration_minutes) ==
    IF duration_minutes = NoneNum THEN 6
    ELSE duration_minutes[1] * 6

\* _calculate_cost: duration * 0.006, in thousandths of a dollar
_calculate_cost(duration_minutes) ==
    IF duration_minutes = NoneNum THEN 0
    ELSE duration_minutes[1] * 6

\* _handle_large_file: rejects the file, naming its size
_handle_large_file(size) ==
    [success |-> FALSE,
     error |-> <<"File too large (", FormatMB(size), "MB). Maximum size is 25MB.">>,
     transcript |-> None,
     suggestion |-> "Please use audio optimization tools to reduce file size or implement file chunking."]

\* An enhancement step that returns what its prompt embeds,
\* raw_transcript[:8000]
_enhance_transcript_Cut(raw_transcript, info) ==
    [text |-> IF Len(raw_transcript) <= 8000 THEN raw_transcript
              ELSE SubSeq(raw_transcript, 1, 8000),
     sections |-> <<>>]

\* An enhancement step that returns the prompt's sample text
_enhance_transcript_Sample(raw_transcript, info) ==
    [text |-> "cleaned_full_transcript", sections |-> <<>>]

\* _enhance_transcript: the placeholder returns the raw transcript
_enhance_transcript(raw_transcript, info) ==
    [text |-> raw_transcript, sections |-> <<>>]

\* A handler that drops the exception's message
WhisperError_NoCause(e) ==
    [success |-> FALSE,
     error |-> <<"OpenAI Whisper error: ", "unknown">>,
     transcript |-> None]

\* _transcribe_file's handler: except Exception as e
WhisperError(e) ==
    [success |-> FALSE,
     error |-> <<"OpenAI Whisper error: ", e>>,
     transcript |-> None]

\* The file-not-found result of transcribe_meeting
FileNotFound(path) ==
    [success |-> FALSE,
     error |-> <<"File not found: ", path>>,
     transcript |-> None]

\* The path given to transcribe_meeting
file_path == "downloads/meeting.mp3"

\* Sizes of the file on disk: empty, around the 25 MiB ceiling, a rounding
\* tie (25.25 MiB) and a larger file
FileSizes == {0, 26214399, 26214400, 26214401, 26476544, 30000000}

MeetingInfos ==
    {[jurisdiction |-> "Raleigh", date |-> "2025-08-12", type |-> "Planning Commission"],
     [jurisdiction |-> "Durham", date |-> "2025-09-02", type |-> "City Council"]}

\* Messages of the exceptions an endpoint call or a file open can raise
Causes == {"Connection error.", "Rate limit reached"}

\* Largest duration, in seconds, the speech-to-text endpoint reports in
\* the model
MaxDuration == 2

\* s repeated n times
RECURSIVE Repeat(_, _)
Repeat(s, n) ==
    IF n = 0 THEN ""
    ELSE LET h == Repeat(s, n \div 2)
         IN IF n % 2 = 1 THEN h \o h \o s ELSE h \o h

\* The text of a long meeting: 12009 characters, of which "adjourned" are
\* the last nine
LongText == Repeat("motion carried. ", 750) \o "adjourned"

\* Texts the speech-to-text endpoint returns (silence gives the empty text)
SttTexts == {"", "item one approved", LongText}

\* Responses of audio.transcriptions.create(response_format="verbose_json")
SttResponses ==
    {[text |-> t, duration |-> d,
      language |-> IF t = "" THEN None ELSE "english",
      segments |-> IF t = "" THEN <<>> ELSE <<t>>] :
        t \in SttTexts, d \in {NoneNum} \cup {Some(n) : n \in 1..MaxDuration}}

\* Outcome of an endpoint call: not issued, raised with a cause, or answered
NoCall == [status |-> "none", cause |-> None, text |-> None]
Raised(c) == [status |-> "raised", cause |-> c, text |-> None]
Answered(t) == [status |-> "ok", cause |-> None, text |-> t]

\* Outcome of the chat call of analyze_transcript
NoChat == [status |-> "none", cause |-> None, kind |-> "none",
           content |-> <<>>, data |-> JNull]
ChatRaised(c) == [status |-> "raised", cause |-> c, kind |-> "none",
                  content |-> <<>>, data |-> JNull]
ChatAnswered(r) == [status |-> "ok", cause |-> None, kind |-> r.kind,
                    content |-> r.content, data |-> r.data]

\* The analysis file before any analysis was saved
NoFile == NoneText

\* transcribe_meeting is called
TM_Call ==
    /\ pc = "idle"
    /\ \E e \in BOOLEAN, s \in FileSizes, m \in MeetingInfos :
        /\ fileExists' = e
        /\ fileSize' = IF e THEN s ELSE 0
        /\ meeting_info' = m
    /\ op' = "transcribe_meeting"
    /\ pc' = "tm_exists"
    /\ UNCHANGED <<transcript_result, result, stt_call, trace, anVars,
                   analysis_file, nlVars>>
    /\ UNCHANGED xVars
    /\ UNCHANGED sent

\* transcribe_meeting without the existence check
TM_CheckExists_Skipped ==
    /\ pc = "tm_exists"
    /\ pc' = "tm_size"
    /\ UNCHANGED <<op, fileExists, fileSize, meeting_info, transcript_result,
                   result, stt_call, trace, anVars, analysis_file, nlVars>>
    /\ UNCHANGED xVars
    /\ UNCHANGED sent

\* if not file_path.exists(): return the file-not-found result
TM_CheckExists ==
    /\ pc = "tm_exists"
    /\ trace' = Append(trace, "exists")
    /\ IF ~fileExists
       THEN /\ result' = FileNotFound(file_path)
            /\ pc' = "returned"
       ELSE /\ pc' = "tm_size"
            /\ UNCHANGED result
    /\ UNCHANGED <<op, fileExists, fileSize, meeting_info, transcript_result, stt_call,
                   anVars, analysis_file, nlVars>>
    /\ UNCHANGED xVars
    /\ UNCHANGED sent

\* A size check that rejects a file of exactly the ceiling
TM_CheckSize_Inclusive ==
    /\ pc = "tm_size"
    /\ IF fileSize >= max_file_size
       THEN /\ result' = _handle_large_file(fileSize)
            /\ trace' = trace \o <<"stat", "stat">>
            /\ pc' = "returned"
       ELSE /\ trace' = Append(trace, "stat")
            /\ pc' = "tm_transcribe"
            /\ UNCHANGED result
    /\ UNCHANGED <<op, fileExists, fileSize, meeting_info, transcript_result, stt_call,
                   anVars, analysis_file, nlVars>>
    /\ UNCHANGED xVars
    /\ UNCHANGED sent

\* if file_path.stat().st_size > self.max_file_size: _handle_large_file
TM_CheckSize ==
    /\ pc = "tm_size"
    /\ IF fileSize > max_file_size
       THEN /\ result' = _handle_large_file(fileSize)
            /\ trace' = trace \o <<"stat", "stat">>
            /\ pc' = "returned"
       ELSE /\ trace' = Append(trace, "stat")
            /\ pc' = "tm_transcribe"
            /\ UNCHANGED result
    /\ UNCHANGED <<op, fileExists, fileSize, meeting_info, transcript_result, stt_call,
                   anVars, analysis_file, nlVars>>
    /\ UNCHANGED xVars
    /\ UNCHANGED sent

\* _transcribe_file, then "if not transcript_result['success']: return"
TM_TranscribeFile ==
    /\ pc = "tm_transcribe"
    /\ \/ \E c \in Causes :              \* aiofiles.open raises
            /\ transcript_result' = WhisperError(c)
            /\ trace' = Append(trace, "open")
            /\ UNCHANGED stt_call
       \/ \E c \in Causes :              \* the endpoint call raises
            /\ transcript_result' = WhisperError(c)
            /\ trace' = trace \o <<"open", "stt">>
            /\ stt_call' = Raised(c)
       \/ \E r \in SttResponses :        \* the endpoint answers
            /\ transcript_result' = [success |-> TRUE,
                                     transcript |-> r.text,
                                     duration |-> r.duration,
                                     language |-> r.language,
                                     segments |-> r.segments]
            /\ trace' = trace \o <<"open", "stt">>
            /\ stt_call' = Answered(r.text)
    /\ IF ~transcript_result'.success
       THEN /\ result' = transcript_result'
            /\ pc' = "returned"
       ELSE /\ pc' = "tm_enhance"
            /\ UNCHANGED result
    /\ UNCHANGED <<op, fileExists, fileSize, meeting_info, anVars, analysis_file, nlVars>>
    /\ UNCHANGED xVars
    /\ UNCHANGED sent

\* _enhance_transcript and the success result
TM_Enhance ==
    /\ pc = "tm_enhance"
    /\ LET enhanced_result ==
               _enhance_transcript(transcript_result.transcript, meeting_info)
       IN result' = [success |-> TRUE,
                     transcript |-> enhanced_result.text,
                     meeting_info |-> meeting_info,
                     duration |-> transcript_result.duration,
                     language |-> transcript_result.language,
                     segments |-> transcript_result.segments,
                     cost_estimate |-> _calculate_cost(transcript_result.duration),
                     processed_at |-> Now,
                     enhanced_sections |-> enhanced_result.sections]
    /\ pc' = "returned"
    /\ UNCHANGED <<op, fileExists, fileSize, meeting_info, transcript_result,
                   stt_call, trace, anVars, analysis_file, nlVars>>
    /\ UNCHANGED xVars
    /\ UNCHANGED sent

----------------------------------------------------------------------------------------------------------------------------------------
(* MeetingAnalysisService.analyze_transcript                               *)

\* Largest number of entries in a list of an extraction record
MaxEntries == 1

\* The i-th project and the i-th person of a record
Project(i) ==
    JDict(<<Str("name"), Str("vote_outcome"), Str("vote_details")>>,
          <<JStr(<<W("Oak Street Apartments"), W(ToString(i))>>),
            S("approved"), S("9-0")>>)

Person(i) ==
    JDict(<<Str("name"), Str("role")>>,
          <<JStr(<<W("Commissioner"), W(ToString(i))>>), S("commissioner")>>)

\* The dict with the given keys, in order, leaving out the keys whose value
\* is marked absent
Absent == [t |-> "absent", s |-> <<>>, ks |-> <<>>, items |-> <<>>]

RECURSIVE MakeDict(_, _, _)
MakeDict(ks, vals, i) ==
    IF i = 0 THEN JDict(<<>>, <<>>)
    ELSE LET d == MakeDict(ks, vals, i - 1)
         IN IF vals[i] = Absent THEN d ELSE DictPut(d, Str(ks[i]), vals[i])

\* Lists of 0..MaxEntries projects or people, or no list at all
ProjectLists ==
    {Absent} \cup {JList([i \in 1..n |-> Project(i)]) : n \in 0..MaxEntries}

PersonLists ==
    {Absent} \cup {JList([i \in 1..n |-> Person(i)]) : n \in 0..MaxEntries}

\* Records that match the schema of the analysis prompt; any field may be
\* missing
SchemaRecords ==
    {MakeDict(<<"projects", "key_people", "newsletter_highlights">>,
              <<p, k, h>>, 3) :
        p \in ProjectLists, k \in PersonLists,
        h \in {Absent, JList(<<S("Rezoning approved 9-0")>>)}}

\* A record with one project and no people
OneProject ==
    MakeDict(<<"projects", "key_people", "newsletter_highlights">>,
             <<JList(<<Project(1)>>), JList(<<>>),
               JList(<<S("Rezoning approved 9-0")>>)>>, 3)

\* A record whose fields are all null
NullFields ==
    MakeDict(<<"projects", "key_people", "newsletter_highlights">>,
             <<JNull, JNull, JNull>>, 3)

\* Texts that are no JSON document: prose, a fenced document, a document
\* with trailing prose, a truncated document, the empty text
UnparseableTexts ==
    {<<W("The commission approved one rezoning.")>>,
     <<W("<fence json>")>> \o json_dumps(OneProject) \o <<W("<fence>")>>,
     json_dumps(OneProject) \o <<W("Let me know if you need more.")>>,
     SubSeq(json_dumps(OneProject), 1, Len(json_dumps(OneProject)) - 1),
     <<>>}

\* JSON documents that are no object
NonObjectTexts ==
    {<<P("["), P("]")>>, <<Quoted(Str("No projects were discussed."))>>,
     <<W("null")>>, <<W("42")>>}

\* What chat.completions.create returns as choices[0].message.content
ChatResponses ==
    {[kind |-> "schema", content |-> json_dumps(d), data |-> d] : d \in SchemaRecords}
    \cup {[kind |-> "unparseable", content |-> t, data |-> JNull] : t \in UnparseableTexts}
    \cup {[kind |-> "non-object", content |-> t, data |-> JNull] : t \in NonObjectTexts}
    \cup {[kind |-> "nulls", content |-> json_dumps(NullFields), data |-> NullFields]}
    \cup {[kind |-> "null", content |-> NoneText, data |-> JNull]}

\* len(text) of a text of words: the number of its characters
RECURSIVE Chars(_)
Chars(text) ==
    IF text = <<>> THEN 0 ELSE Len(Head(text).w) + Chars(Tail(text))

\* text[:n] of a text of words
RECURSIVE Slice(_, _)
Slice(text, n) ==
    IF text = <<>> \/ n = 0 THEN <<>>
    ELSE LET w == Head(text).w
         IN IF Len(w) <= n
            THEN <<Head(text)>> \o Slice(Tail(text), n - Len(w))
            ELSE <<W(SubSeq(w, 1, n))>>

\* Transcripts given to the analysis
Transcripts == {<<>>, <<W("item one approved")>>, <<W(LongText)>>}

\* The arguments of chat.completions.create of an analysis; the
\* temperature is in tenths
AnalysisRequest(system, prompt) ==
    [model |-> "gpt-4", system |-> system, user |-> prompt, temperature |-> 1]

\* _build_analysis_prompt: the meeting details, the fields asked for each
\* project and {transcript[:12000]}
_build_analysis_prompt(transcript_text, info) ==
    [jurisdiction |-> info.jurisdiction, date |-> info.date, type |-> info.type,
     projects |-> <<"name", "address", "developer", "applicant", "project_type",
                    "current_status", "vote_outcome", "vote_details",
                    "key_concerns", "conditions", "timeline", "opposition",
                    "staff_recommendation">>,
     transcript |-> Slice(transcript_text, 12000)]

\* str(e) of the TypeError json.loads raises on None
TypeErrorMsg == "the JSON object must be str, bytes or bytearray, not NoneType"

\* A parse without the fallback: JSONDecodeError escapes to the handler
ParseAnalysis_NoFallback(analysis_text) ==
    LET parsed == json_loads(analysis_text)
    IN IF parsed.status = "ok"
       THEN [raised |-> FALSE, val |-> parsed.val]
       ELSE [raised |-> TRUE, val |-> JNull]

\* A parse that fills the fields the response left out with empty lists
ParseAnalysis_Defaults(analysis_text) ==
    LET parsed == json_loads(analysis_text)
        Fill(d, k) == IF d.t = "dict" /\ ~HasKey(d, k)
                      THEN DictPut(d, Str(k), JList(<<>>)) ELSE d
    IN IF parsed.status = "JSONDecodeError"
       THEN [raised |-> FALSE,
             val |-> JDict(<<Str("raw_analysis")>>, <<JStr(analysis_text)>>)]
       ELSE IF parsed.status = "ok"
       THEN [raised |-> FALSE,
             val |-> Fill(Fill(Fill(parsed.val, "projects"), "key_people"),
                          "newsletter_highlights")]
       ELSE [raised |-> TRUE, val |-> JNull]

\* try: json.loads(analysis_text)
\* except json.JSONDecodeError: {"raw_analysis": analysis_text}
\* The value, or the exception that escapes.
ParseAnalysis(analysis_text) ==
    LET parsed == json_loads(analysis_text)
    IN IF parsed.status = "JSONDecodeError"
       THEN [raised |-> FALSE,
             val |-> JDict(<<Str("raw_analysis")>>, <<JStr(analysis_text)>>)]
       ELSE IF parsed.status = "ok"
       THEN [raised |-> FALSE, val |-> parsed.val]
       ELSE [raised |-> TRUE, val |-> JNull]

\* analyze_transcript's handler: except Exception as e
AnalysisFailed(e) ==
    [success |-> FALSE,
     error |-> <<"Analysis failed: ", e>>,
     analysis |-> JNull]

\* analyze_transcript is called
AT_Call ==
    /\ pc = "idle"
    /\ \E t \in Transcripts, m \in MeetingInfos :
        /\ transcript' = t
        /\ meeting_info' = m
    /\ op' = "analyze_transcript"
    /\ pc' = "at_request"
    /\ UNCHANGED <<fileExists, tmVars, result, trace, api_key, chat_call,
                   analysis_file, nlVars>>
    /\ UNCHANGED xVars
    /\ UNCHANGED sent

\* An analysis that asks once more when the call raises or the answer is
\* no JSON document
AT_Request_Retry ==
    /\ pc = "at_request"
    /\ LET req == AnalysisRequest("You are an expert Triangle area development analyst who extracts key information from planning meetings.",
                                  _build_analysis_prompt(transcript, meeting_info))
           Tries(again) == IF again THEN <<req, req>> ELSE <<req>>
           Chats(again) == IF again THEN <<"chat", "chat">> ELSE <<"chat">>
       IN \/ \E c \in Causes :
               /\ chat_call' = ChatRaised(c)
               /\ result' = AnalysisFailed(c)
               /\ sent' = sent \o Tries(TRUE)
               /\ trace' = trace \o Chats(TRUE)
          \/ \E r \in ChatResponses :
               /\ chat_call' = ChatAnswered(r)
               /\ sent' = sent \o Tries(json_loads(r.content).status # "ok")
               /\ trace' = trace \o Chats(json_loads(r.content).status # "ok")
               /\ LET analysis_data == ParseAnalysis(r.content)
                  IN result' = IF analysis_data.raised
                               THEN AnalysisFailed(TypeErrorMsg)
                               ELSE [success |-> TRUE,
                                     analysis |-> analysis_data.val,
                                     meeting_info |-> meeting_info,
                                     analyzed_at |-> Now,
                                     token_usage |-> Some(Len(r.content))]
    /\ pc' = "returned"
    /\ UNCHANGED <<op, fileExists, tmVars, meeting_info, transcript, api_key,
                   analysis_file, nlVars>>
    /\ UNCHANGED xVars

\* The chat call, the parse of its answer and the result
AT_Request ==
    /\ pc = "at_request"
    /\ trace' = Append(trace, "chat")
    /\ sent' = Append(sent,
                      AnalysisRequest("You are an expert Triangle area development analyst who extracts key information from planning meetings.",
                                      _build_analysis_prompt(transcript, meeting_info)))
    /\ \/ \E c \in Causes :
            /\ chat_call' = ChatRaised(c)
            /\ result' = AnalysisFailed(c)
       \/ \E r \in ChatResponses :
            /\ chat_call' = ChatAnswered(r)
            /\ LET analysis_data == ParseAnalysis(r.content)
               IN result' = IF analysis_data.raised
                            THEN AnalysisFailed(TypeErrorMsg)
                            ELSE [success |-> TRUE,
                                  analysis |-> analysis_data.val,
                                  meeting_info |-> meeting_info,
                                  analyzed_at |-> Now,
                                  token_usage |-> Some(Len(r.content))]
    /\ pc' = "returned"
    /\ UNCHANGED <<op, fileExists, tmVars, meeting_info, transcript, api_key,
                   analysis_file, nlVars>>
    /\ UNCHANGED xVars

----------------------------------------------------------------------------
(* analyze_transcript_fixed.py: analyze_transcript                         *)

\* meeting_info as json.dump writes it
InfoValue(m) ==
    JDict(<<Str("jurisdiction"), Str("date"), Str("type")>>,
          <<S(m.jurisdiction), S(m.date), S(m.type)>>)

\* A list whose elements are all dicts
IsDictList(v) == v.t = "list" /\ \A i \in 1..Len(v.items) : v.items[i].t = "dict"

\* display_analysis_results raises: analysis_data has no .get, an entry of
\* projects or key_people has no .get, or a value has no len()
DisplayRaises(analysis_data) ==
    \/ analysis_data.t # "dict"
    \/ LET projects == DictGet(analysis_data, "projects", JList(<<>>))
       IN Truthy(projects) /\ ~IsDictList(projects)
    \/ LET people == DictGet(analysis_data, "key_people", JList(<<>>))
       IN Truthy(people) /\ ~IsDictList(people)
    \/ DictGet(analysis_data, "newsletter_highlights", JList(<<>>)).t = "num"
       /\ Truthy(DictGet(analysis_data, "newsletter_highlights", JList(<<>>)))
    \/ /\ HasKey(analysis_data, "raw_analysis")
       /\ DictGet(analysis_data, "raw_analysis", JNull).t \in {"null", "num"}

\* What analyze_transcript saves to analysis_<jurisdiction>_<timestamp>.json
SavedAnalysis(info, analysis_data, text) ==
    JDict(<<Str("meeting_info"), Str("analysis"), Str("transcript_length"),
            Str("analyzed_at")>>,
          <<InfoValue(info), analysis_data, JNum(ToString(Chars(text))), S(Now)>>)

\* Contents of the transcript file the CLI reads
TranscriptFiles ==
    {<<W("item one approved"), W("item two deferred")>>, <<W(LongText)>>}

\* build_analysis_prompt: the meeting details, the fields asked for each
\* project and {transcript}
build_analysis_prompt(transcript_text, info) ==
    [jurisdiction |-> info.jurisdiction, date |-> info.date, type |-> info.type,
     projects |-> <<"name", "address", "case_number", "developer", "applicant",
                    "project_type", "current_status", "vote_outcome",
                    "vote_details", "key_concerns", "conditions", "timeline",
                    "opposition", "staff_recommendation", "acreage",
                    "previous_action">>,
     transcript |-> transcript_text]

\* analyze_transcript (CLI) is called
CLI_Call ==
    /\ pc = "idle"
    /\ \E e \in BOOLEAN, key \in BOOLEAN, m \in MeetingInfos :
        /\ fileExists' = e
        /\ api_key' = key
        /\ meeting_info' = m
    /\ op' = "cli_analyze_transcript"
    /\ pc' = "cli_read"
    /\ result' = JNull
    /\ UNCHANGED <<tmVars, trace, transcript, chat_call, analysis_file, nlVars>>
    /\ UNCHANGED xVars
    /\ UNCHANGED sent

\* Read the transcript; return None if the file is not found
CLI_Read ==
    /\ pc = "cli_read"
    /\ trace' = Append(trace, "read_transcript")
    /\ IF ~fileExists
       THEN /\ pc' = "returned"
            /\ UNCHANGED transcript
       ELSE /\ \E t \in TranscriptFiles : transcript' = t
            /\ pc' = "cli_key"
    /\ UNCHANGED <<op, fileExists, tmVars, meeting_info, result, api_key,
                   chat_call, analysis_file, nlVars>>
    /\ UNCHANGED xVars
    /\ UNCHANGED sent

\* Check API key; return None if it is not set
CLI_CheckKey ==
    /\ pc = "cli_key"
    /\ trace' = Append(trace, "getenv")
    /\ pc' = IF ~api_key THEN "returned" ELSE "cli_request"
    /\ UNCHANGED <<op, fileExists, tmVars, meeting_info, result, anVars,
                   analysis_file, nlVars>>
    /\ UNCHANGED xVars
    /\ UNCHANGED sent

\* The chat call, the parse of its answer, display, save and return
CLI_Request ==
    /\ pc = "cli_request"
    /\ sent' = Append(sent,
                      AnalysisRequest("You are an expert Triangle area development analyst who extracts key information from planning meetings for professional newsletters.",
                                      build_analysis_prompt(transcript, meeting_info)))
    /\ \/ \E c \in Causes :
            /\ chat_call' = ChatRaised(c)
            /\ trace' = Append(trace, "chat")
            /\ UNCHANGED <<result, analysis_file>>
       \/ \E r \in ChatResponses :
            /\ chat_call' = ChatAnswered(r)
            /\ LET analysis_data == ParseAnalysis(r.content)
               IN IF analysis_data.raised \/ DisplayRaises(analysis_data.val)
                  THEN /\ trace' = Append(trace, "chat")
                       /\ UNCHANGED <<result, analysis_file>>
                  ELSE /\ trace' = trace \o <<"chat", "write_analysis">>
                       /\ analysis_file' =
                              json_dumps(SavedAnalysis(meeting_info,
                                                       analysis_data.val,
                                                       transcript))
                       /\ result' = analysis_data.val
    /\ pc' = "returned"
    /\ UNCHANGED <<op, fileExists, tmVars, meeting_info, transcript, api_key,
                   nlVars>>
    /\ UNCHANGED xVars

----------------------------------------------------------------------------
(* generate_newsletter.py                                                  *)

\* A generated text is a sequence of parts; None is NoneContent
NoneContent == <<None>>

\* bool(content) of a section's content
ContentTruthy(content) == content # <<>> /\ content # NoneContent

\* The section mapping: keys in insertion order and their contents
NoSections == [ks |-> <<>>, vals |-> <<>>]

\* newsletter_sections[k] = v
SectionPut(secs, k, v) == [ks |-> Append(secs.ks, k), vals |-> Append(secs.vals, v)]

\* k in sections
InSections(secs, k) == \E i \in 1..Len(secs.ks) : secs.ks[i] = k

\* sections[k]
SectionGet(secs, k) == secs.vals[CHOOSE i \in 1..Len(secs.ks) : secs.ks[i] = k]

SectionKeys ==
    {"project_pipeline", "market_intelligence", "regulatory_watch",
     "people_politics", "executive_summary"}

\* Outcome of the generation call of one section
NoGen == [status |-> "none", cause |-> None, content |-> <<>>]
GenRaised(c) == [status |-> "raised", cause |-> c, content |-> <<>>]
GenAnswered(t) == [status |-> "ok", cause |-> None, content |-> t]

NoGenCalls == [k \in SectionKeys |-> NoGen]

\* What the endpoint returns as the content for a section: prose, the
\* empty text, or no content
GenContents(k) == {<<"Headline and prose for ", k>>, <<>>, NoneContent}

\* What the endpoint does on the generation call of section k
GenOutcomes(k) ==
    {GenRaised(c) : c \in Causes} \cup {GenAnswered(t) : t \in GenContents(k)}

\* generate_project_pipeline: the content, or the error text
generate_project_pipeline(o) ==
    IF o.status = "raised"
    THEN <<"Error generating project pipeline content: ", o.cause>>
    ELSE o.content

\* generate_market_intelligence: the content, or the error text
generate_market_intelligence(o) ==
    IF o.status = "raised"
    THEN <<"Error generating market intelligence content: ", o.cause>>
    ELSE o.content

\* generate_regulatory_watch: the content, or the error text
generate_regulatory_watch(o) ==
    IF o.status = "raised"
    THEN <<"Error generating regulatory watch content: ", o.cause>>
    ELSE o.content

\* generate_people_politics: the content, or the error text
generate_people_politics(o) ==
    IF o.status = "raised"
    THEN <<"Error generating people & politics content: ", o.cause>>
    ELSE o.content

\* generate_executive_summary: the content, or the error text
generate_executive_summary(o) ==
    IF o.status = "raised"
    THEN <<"Error generating executive summary content: ", o.cause>>
    ELSE o.content

\* section_order of display_newsletter_content
display_section_order ==
    <<<<"executive_summary", "EXECUTIVE SUMMARY">>,
      <<"project_pipeline", "PROJECT PIPELINE">>,
      <<"market_intelligence", "MARKET INTELLIGENCE">>,
      <<"regulatory_watch", "REGULATORY WATCH">>,
      <<"people_politics", "PEOPLE & POLITICS">>>>

\* A section order that follows the order of generation
save_section_order_Generated ==
    <<<<"project_pipeline", "## Project Pipeline">>,
      <<"market_intelligence", "## Market Intelligence">>,
      <<"regulatory_watch", "## Regulatory Watch">>,
      <<"people_politics", "## People & Politics">>,
      <<"executive_summary", "## Executive Summary">>>>

\* section_order of save_newsletter_content
save_section_order ==
    <<<<"executive_summary", "## Executive Summary">>,
      <<"project_pipeline", "## Project Pipeline">>,
      <<"market_intelligence", "## Market Intelligence">>,
      <<"regulatory_watch", "## Regulatory Watch">>,
      <<"people_politics", "## People & Politics">>>>

\* One printed or written block
Block(kind, key, text) == [kind |-> kind, key |-> key, text |-> text]

RECURSIVE DisplaySections(_, _), SaveSections(_, _), SaveSections_Present(_, _)

\* for key, title in section_order: title, rule and content are printed
DisplaySections(sections, i) ==
    IF i > Len(display_section_order) THEN <<>>
    ELSE LET key == display_section_order[i][1]
             title == display_section_order[i][2]
         IN (IF InSections(sections, key) /\ ContentTruthy(SectionGet(sections, key))
             THEN <<Block("heading", key, <<title>>),
                    Block("content", key, SectionGet(sections, key))>>
             ELSE <<>>)
            \o DisplaySections(sections, i + 1)

\* A save that writes every section of the mapping: if key in sections
SaveSections_Present(sections, i) ==
    IF i > Len(save_section_order) THEN <<>>
    ELSE LET key == save_section_order[i][1]
             title == save_section_order[i][2]
         IN (IF InSections(sections, key)
             THEN <<Block("heading", key, <<title>>),
                    Block("content", key, SectionGet(sections, key)),
                    Block("rule", key, <<"---">>)>>
             ELSE <<>>)
            \o SaveSections_Present(sections, i + 1)

\* for key, title in section_order: title, content and "---" are written
SaveSections(sections, i) ==
    IF i > Len(save_section_order) THEN <<>>
    ELSE LET key == save_section_order[i][1]
             title == save_section_order[i][2]
         IN (IF InSections(sections, key) /\ ContentTruthy(SectionGet(sections, key))
             THEN <<Block("heading", key, <<title>>),
                    Block("content", key, SectionGet(sections, key)),
                    Block("rule", key, <<"---">>)>>
             ELSE <<>>)
            \o SaveSections(sections, i + 1)

\* display_newsletter_content
display_newsletter_content(sections, info) ==
    <<Block("banner", "", <<"TRIANGLE DEVELOPMENT DIGEST - NEWSLETTER CONTENT">>),
      Block("meeting", "", json_dumps(info))>>
    \o DisplaySections(sections, 1)

\* save_newsletter_content: the text of the newsletter file
save_newsletter_content(sections, info) ==
    <<Block("title", "", <<"# Triangle Development Digest">>),
      Block("meeting", "", json_dumps(info))>>
    \o SaveSections(sections, 1)
    \o <<Block("footer", "", <<"*Generated by PermitRDU AI on ", Now, "*">>)>>

\* meeting_info.get('jurisdiction', 'triangle').lower() raises
LowerRaises(info) == DictGet(info, "jurisdiction", S("triangle")).t # "str"

\* meeting_info and analysis of generate_newsletter_content
NL_meeting_info == DictGet(data, "meeting_info", JDict(<<>>, <<>>))
NL_analysis == DictGet(data, "analysis", JDict(<<>>, <<>>))

\* What generate_newsletter_content returns when it returns None
ReturnedNone == [none |-> TRUE]

\* generate_newsletter_content is called
NL_Call ==
    /\ pc = "idle"
    /\ \E e \in (IF analysis_file = NoFile THEN {FALSE} ELSE BOOLEAN),
          key \in BOOLEAN :
        /\ fileExists' = e
        /\ api_key' = key
    /\ op' = "generate_newsletter_content"
    /\ pc' = "nl_load"
    /\ result' = ReturnedNone
    /\ UNCHANGED <<tmVars, meeting_info, trace, transcript, chat_call,
                   analysis_file, nlVars>>
    /\ UNCHANGED xVars
    /\ UNCHANGED sent

\* Analysis files that another tool or an editor wrote: prose, a document
\* whose analysis is null, one whose analysis is a list, one without
\* meeting_info, and a document that is a list
OtherAnalysisFiles ==
    LET info == InfoValue([jurisdiction |-> "Raleigh", date |-> "2025-08-12",
                           type |-> "Planning Commission"])
    IN {<<W("analysis pending")>>,
        json_dumps(JDict(<<Str("meeting_info"), Str("analysis")>>,
                         <<info, JNull>>)),
        json_dumps(JDict(<<Str("meeting_info"), Str("analysis")>>,
                         <<info, JList(<<S("Rezoning approved 9-0")>>)>>)),
        json_dumps(JDict(<<Str("analysis")>>, <<OneProject>>)),
        json_dumps(JList(<<>>))}

\* generate_newsletter_content is called on a file the analysis CLI did
\* not write
NL_CallOn ==
    /\ pc = "idle"
    /\ \E f \in OtherAnalysisFiles, key \in BOOLEAN :
        /\ analysis_file' = f
        /\ api_key' = key
    /\ fileExists' = TRUE
    /\ op' = "generate_newsletter_content"
    /\ pc' = "nl_load"
    /\ result' = ReturnedNone
    /\ UNCHANGED <<tmVars, meeting_info, trace, transcript, chat_call,
                   nlVars, xVars>>
    /\ UNCHANGED sent

\* Load analysis data; return None if the file is not found
NL_Load ==
    /\ pc = "nl_load"
    /\ trace' = Append(trace, "read_analysis")
    /\ IF ~fileExists
       THEN /\ pc' = "returned"
            /\ UNCHANGED data
       ELSE LET loaded == json_loads(analysis_file)
            IN IF loaded.status # "ok" \/ loaded.val.t # "dict"
                  \/ DictGet(loaded.val, "meeting_info", JDict(<<>>, <<>>)).t # "dict"
               THEN /\ pc' = "raised"
                    /\ data' = loaded.val
               ELSE /\ pc' = "nl_key"
                    /\ data' = loaded.val
    /\ UNCHANGED <<op, fileExists, tmVars, meeting_info, result, anVars,
                   analysis_file, newsletter_sections, gen_calls, display,
                   newsletter_file>>
    /\ UNCHANGED xVars
    /\ UNCHANGED sent

\* Check API key; return None if it is not set
NL_CheckKey ==
    /\ pc = "nl_key"
    /\ trace' = Append(trace, "getenv")
    /\ pc' = IF ~api_key THEN "returned" ELSE "nl_pipeline"
    /\ UNCHANGED <<op, fileExists, tmVars, meeting_info, result, anVars,
                   analysis_file, nlVars>>
    /\ UNCHANGED xVars
    /\ UNCHANGED sent

\* The parts of a section step that no section changes
NL_SectionFrame ==
    UNCHANGED <<op, fileExists, tmVars, meeting_info, result, anVars,
                analysis_file, data, display, newsletter_file, xVars,
                sent>>

\* 1. Project Pipeline Section, if analysis.get('projects')
NL_ProjectPipeline ==
    /\ pc = "nl_pipeline"
    /\ IF NL_analysis.t # "dict"
       THEN /\ pc' = "raised"
            /\ UNCHANGED <<newsletter_sections, gen_calls, trace>>
       ELSE /\ pc' = "nl_market"
            /\ IF Truthy(DictGet(NL_analysis, "projects", JNull))
               THEN \E o \in GenOutcomes("project_pipeline") :
                       /\ gen_calls' = [gen_calls EXCEPT !["project_pipeline"] = o]
                       /\ trace' = Append(trace, "project_pipeline")
                       /\ newsletter_sections' =
                              SectionPut(newsletter_sections, "project_pipeline",
                                         generate_project_pipeline(o))
               ELSE UNCHANGED <<newsletter_sections, gen_calls, trace>>
    /\ NL_SectionFrame

\* A Market Intelligence step whose call is not wrapped in try/except
NL_MarketIntelligence_Aborts ==
    /\ pc = "nl_market"
    /\ \E o \in GenOutcomes("market_intelligence") :
          /\ gen_calls' = [gen_calls EXCEPT !["market_intelligence"] = o]
          /\ trace' = Append(trace, "market_intelligence")
          /\ IF o.status = "raised"
             THEN /\ pc' = "raised"
                  /\ UNCHANGED newsletter_sections
             ELSE /\ pc' = "nl_regulatory"
                  /\ newsletter_sections' =
                         SectionPut(newsletter_sections, "market_intelligence",
                                    o.content)
    /\ NL_SectionFrame

\* 2. Market Intelligence Section
NL_MarketIntelligence ==
    /\ pc = "nl_market"
    /\ pc' = "nl_regulatory"
    /\ \E o \in GenOutcomes("market_intelligence") :
          /\ gen_calls' = [gen_calls EXCEPT !["market_intelligence"] = o]
          /\ trace' = Append(trace, "market_intelligence")
          /\ newsletter_sections' =
                 SectionPut(newsletter_sections, "market_intelligence",
                            generate_market_intelligence(o))
    /\ NL_SectionFrame

\* 3. Regulatory Watch Section
NL_RegulatoryWatch ==
    /\ pc = "nl_regulatory"
    /\ pc' = "nl_people"
    /\ \E o \in GenOutcomes("regulatory_watch") :
          /\ gen_calls' = [gen_calls EXCEPT !["regulatory_watch"] = o]
          /\ trace' = Append(trace, "regulatory_watch")
          /\ newsletter_sections' =
                 SectionPut(newsletter_sections, "regulatory_watch",
                            generate_regulatory_watch(o))
    /\ NL_SectionFrame

\* A People & Politics step that is not gated on key_people
NL_PeoplePolitics_Ungated ==
    /\ pc = "nl_people"
    /\ pc' = "nl_summary"
    /\ \E o \in GenOutcomes("people_politics") :
          /\ gen_calls' = [gen_calls EXCEPT !["people_politics"] = o]
          /\ trace' = Append(trace, "people_politics")
          /\ newsletter_sections' =
                 SectionPut(newsletter_sections, "people_politics",
                            generate_people_politics(o))
    /\ NL_SectionFrame

\* 4. People & Politics Section, if analysis.get('key_people')
NL_PeoplePolitics ==
    /\ pc = "nl_people"
    /\ pc' = "nl_summary"
    /\ IF Truthy(DictGet(NL_analysis, "key_people", JNull))
       THEN \E o \in GenOutcomes("people_politics") :
               /\ gen_calls' = [gen_calls EXCEPT !["people_politics"] = o]
               /\ trace' = Append(trace, "people_politics")
               /\ newsletter_sections' =
                      SectionPut(newsletter_sections, "people_politics",
                                 generate_people_politics(o))
       ELSE UNCHANGED <<newsletter_sections, gen_calls, trace>>
    /\ NL_SectionFrame

\* 5. Executive Summary; iterating the highlights raises on a value that
\* is not iterable, before the call
NL_ExecutiveSummary ==
    /\ pc = "nl_summary"
    /\ IF DictGet(NL_analysis, "newsletter_highlights", JList(<<>>)).t
              \in {"null", "num"}
       THEN /\ pc' = "raised"
            /\ UNCHANGED <<newsletter_sections, gen_calls, trace>>
       ELSE /\ pc' = "nl_output"
            /\ \E o \in GenOutcomes("executive_summary") :
                  /\ gen_calls' = [gen_calls EXCEPT !["executive_summary"] = o]
                  /\ trace' = Append(trace, "executive_summary")
                  /\ newsletter_sections' =
                         SectionPut(newsletter_sections, "executive_summary",
                                    generate_executive_summary(o))
    /\ NL_SectionFrame

\* Display and save results, and return the section mapping
NL_DisplayAndSave ==
    /\ pc = "nl_output"
    /\ display' = display_newsletter_content(newsletter_sections, NL_meeting_info)
    /\ IF LowerRaises(NL_meeting_info)
       THEN /\ pc' = "raised"
            /\ UNCHANGED <<newsletter_file, result, trace>>
       ELSE /\ newsletter_file' =
                   save_newsletter_content(newsletter_sections, NL_meeting_info)
            /\ trace' = Append(trace, "write_newsletter")
            /\ result' = newsletter_sections
            /\ pc' = "returned"
    /\ UNCHANGED <<op, fileExists, tmVars, meeting_info, anVars, analysis_file,
                   data, newsletter_sections, gen_calls>>
    /\ UNCHANGED xVars
    /\ UNCHANGED sent

----------------------------------------------------------------------------
(* generate_newsletter.py: a section generator called on its own           *)

\* "Meeting: {meeting_info.get('jurisdiction')} {meeting_info.get('type')}
\* - {meeting_info.get('date')}"; a missing field reads None
MeetingLine(info) ==
    <<DictGet(info, "jurisdiction", JNull),
      DictGet(info, "type", JNull),
      DictGet(info, "date", JNull)>>

\* The arguments of client.chat.completions.create; the temperature is in
\* tenths
ChatRequest(system, prompt) ==
    [model |-> "gpt-4", system |-> system, user |-> prompt, temperature |-> 3]

\* The prompt of a section: the section named, the meeting line, the
\* bullets of the highlights and the JSON text embedded
SectionPrompt(section, info, bullets, embedded) ==
    [section |-> section, meeting |-> MeetingLine(info),
     bullets |-> bullets, embedded |-> embedded]

\* [f"• {highlight}" for highlight in highlights]: the elements of a list,
\* the keys of a dict
Bullets(highlights) ==
    CASE highlights.t = "list" -> highlights.items
      [] highlights.t = "dict" ->
             [i \in 1..Len(highlights.ks) |-> JStr(highlights.ks[i])]

\* A Project Pipeline request that numbers the requests made so far
project_pipeline_request_Numbered(analysis, info) ==
    ChatRequest("You are a professional newsletter writer for Triangle development professionals.",
                SectionPrompt("Project Pipeline", info,
                              <<JNum(ToString(Len(sent)))>>,
                              json_dumps(DictGet(analysis, "projects", JList(<<>>)))))

\* The request of generate_project_pipeline
project_pipeline_request(analysis, info) ==
    ChatRequest("You are a professional newsletter writer for Triangle development professionals.",
                SectionPrompt("Project Pipeline", info, <<>>,
                              json_dumps(DictGet(analysis, "projects", JList(<<>>)))))

\* The request of generate_market_intelligence
market_intelligence_request(analysis, info) ==
    ChatRequest("You are a market analyst specializing in Triangle area development trends.",
                SectionPrompt("Market Intelligence", info, <<>>,
                              json_dumps(analysis)))

\* The request of generate_regulatory_watch
regulatory_watch_request(analysis, info) ==
    ChatRequest("You are a regulatory affairs expert focused on Triangle development processes.",
                SectionPrompt("Regulatory Watch", info, <<>>,
                              json_dumps(analysis)))

\* The request of generate_people_politics
people_politics_request(analysis, info) ==
    ChatRequest("You are a political analyst covering Triangle development and planning politics.",
                SectionPrompt("People & Politics", info, <<>>,
                              json_dumps(DictGet(analysis, "key_people", JList(<<>>)))))

\* The request of generate_executive_summary
executive_summary_request(analysis, info) ==
    ChatRequest("You are an executive briefing writer for Triangle development professionals.",
                SectionPrompt("Executive Summary", info,
                              Bullets(DictGet(analysis, "newsletter_highlights",
                                              JList(<<>>))),
                              json_dumps(analysis)))

\* The request the generator of section k sends
SectionRequest(k, analysis, info) ==
    CASE k = "project_pipeline" -> project_pipeline_request(analysis, info)
      [] k = "market_intelligence" -> market_intelligence_request(analysis, info)
      [] k = "regulatory_watch" -> regulatory_watch_request(analysis, info)
      [] k = "people_politics" -> people_politics_request(analysis, info)
      [] k = "executive_summary" -> executive_summary_request(analysis, info)

\* What the generator of section k returns on outcome o of its call
SectionText(k, o) ==
    CASE k = "project_pipeline" -> generate_project_pipeline(o)
      [] k = "market_intelligence" -> generate_market_intelligence(o)
      [] k = "regulatory_watch" -> generate_regulatory_watch(o)
      [] k = "people_politics" -> generate_people_politics(o)
      [] k = "executive_summary" -> generate_executive_summary(o)

\* The name of the generator of section k, and the section of a generator
Generator(k) == "generate_" \o k
SectionOf(name) == CHOOSE k \in SectionKeys : Generator(k) = name

\* A section generator is called, twice in a row, on an extraction record
\* and a meeting context
GS_Call ==
    /\ pc = "idle"
    /\ \E k \in SectionKeys, d \in SchemaRecords \cup {NullFields},
          m \in MeetingInfos :
        /\ op' = Generator(k)
        /\ data' = JDict(<<Str("meeting_info"), Str("analysis")>>,
                         <<InfoValue(m), d>>)
    /\ pc' = "gs_first"
    /\ result' = [outputs |-> <<>>]
    /\ UNCHANGED <<fileExists, tmVars, meeting_info, trace, anVars,
                   analysis_file, newsletter_sections, gen_calls, display,
                   newsletter_file, xVars, sent>>

\* One call of the generator: the prompt, the request and the returned
\* text. The endpoint is a function of its request: the same request gets
\* the answer it got before.
GS_Generate ==
    /\ pc \in {"gs_first", "gs_second"}
    /\ LET k == SectionOf(op)
           highlights == DictGet(NL_analysis, "newsletter_highlights", JList(<<>>))
       IN IF k = "executive_summary" /\ highlights.t \in {"null", "num"}
          THEN /\ pc' = "raised"
               /\ UNCHANGED <<result, gen_calls, trace, sent>>
          ELSE LET req == SectionRequest(k, NL_analysis, NL_meeting_info)
               IN \E o \in GenOutcomes(k) :
                     /\ (pc = "gs_second" /\ req = sent[1]) => o = gen_calls[k]
                     /\ sent' = Append(sent, req)
                     /\ gen_calls' = [gen_calls EXCEPT ![k] = o]
                     /\ trace' = Append(trace, k)
                     /\ result' = [outputs |-> Append(result.outputs, SectionText(k, o))]
                     /\ pc' = IF pc = "gs_first" THEN "gs_second" ELSE "returned"
    /\ UNCHANGED <<op, fileExists, tmVars, meeting_info, anVars, analysis_file,
                   data, newsletter_sections, display, newsletter_file, xVars>>

----------------------------------------------------------------------------
(* MeetingProcessor.process_meeting_file and test_meeting_pipeline.py      *)

\* Python None where an error message is expected
NoneMsg == <<>>

\* The str a transcription returned, as the text the analysis receives
Text(s) == IF s = "" THEN <<>> ELSE <<W(s)>>

\* The innermost suspended caller
Top(frames) == frames[Len(frames)]

\* All but the innermost suspended caller
Pop(frames) == SubSeq(frames, 1, Len(frames) - 1)

\* What test_meeting_pipeline returns
RunResult(b) == [returned |-> b]

\* A printed line
Line(label, value) == [label |-> label, value |-> value]

\* A combined result whose success is the transcription's
Combine_Transcribed(tr, ar, info) ==
    [success |-> tr.success,
     transcript |-> tr.transcript,
     analysis |-> ar.analysis,
     meeting_info |-> info,
     processing_summary |->
         [transcription_cost |-> IF "cost_estimate" \in DOMAIN tr
                                 THEN tr.cost_estimate ELSE 0,
          transcript_length |-> IF tr.transcript # "" THEN Len(tr.transcript) ELSE 0,
          analysis_tokens |-> IF "token_usage" \in DOMAIN ar
                              THEN ar.token_usage ELSE NoneNum,
          processed_at |-> Now],
     errors |->
         [transcription_error |-> IF tr.success THEN NoneMsg ELSE tr.error,
          analysis_error |-> IF ar.success THEN NoneMsg ELSE ar.error]]

\* Combine results: the dict process_meeting_file returns after the analysis
Combine(tr, ar, info) ==
    [success |-> ar.success,
     transcript |-> tr.transcript,
     analysis |-> ar.analysis,
     meeting_info |-> info,
     processing_summary |->
         [transcription_cost |-> IF "cost_estimate" \in DOMAIN tr
                                 THEN tr.cost_estimate ELSE 0,
          transcript_length |-> IF tr.transcript # "" THEN Len(tr.transcript) ELSE 0,
          analysis_tokens |-> IF "token_usage" \in DOMAIN ar
                              THEN ar.token_usage ELSE NoneNum,
          processed_at |-> Now],
     errors |->
         [transcription_error |-> IF tr.success THEN NoneMsg ELSE tr.error,
          analysis_error |-> IF ar.success THEN NoneMsg ELSE ar.error]]

\* result.get('errors') of the runner's failure line
ErrorsOf(r) == IF "errors" \in DOMAIN r THEN <<r.errors>> ELSE <<>>

\* The runner's display of the analysis raises: analysis has no .get, a
\* field has no len(), or an entry of projects has no .get
RunnerRaises(analysis) ==
    \/ analysis.t # "dict"
    \/ \E k \in {"projects", "regulatory_changes", "newsletter_highlights"} :
          DictGet(analysis, k, JList(<<>>)).t \in {"null", "num"}
    \/ LET projects == DictGet(analysis, "projects", JList(<<>>))
       IN Truthy(projects) /\ ~IsDictList(projects)

\* process_meeting_file is called by an integration
PM_Call ==
    /\ pc = "idle"
    /\ \E e \in BOOLEAN, s \in FileSizes, m \in MeetingInfos :
        /\ fileExists' = e
        /\ fileSize' = IF e THEN s ELSE 0
        /\ meeting_info' = m
    /\ op' = "process_meeting_file"
    /\ pc' = "pm_transcribe"
    /\ UNCHANGED <<transcript_result, result, stt_call, trace, anVars,
                   analysis_file, nlVars, xVars>>
    /\ UNCHANGED sent

\* main() of test_meeting_pipeline.py is run
RUN_Call ==
    /\ pc = "idle"
    /\ \E e \in BOOLEAN, s \in FileSizes, m \in MeetingInfos, key \in BOOLEAN :
        /\ fileExists' = e
        /\ fileSize' = IF e THEN s ELSE 0
        /\ meeting_info' = m
        /\ api_key' = key
    /\ op' = "test_meeting_pipeline"
    /\ pc' = "run_env"
    /\ UNCHANGED <<transcript_result, result, stt_call, trace, transcript,
                   chat_call, analysis_file, nlVars, xVars>>
    /\ UNCHANGED sent

\* if not check_environment(): return
RUN_CheckEnvironment ==
    /\ pc = "run_env"
    /\ trace' = Append(trace, "getenv")
    /\ IF ~api_key
       THEN /\ printed' = Append(printed,
                             Line("Missing required environment variables", <<>>))
            /\ result' = RunResult(FALSE)
            /\ pc' = "returned"
       ELSE /\ printed' = Append(printed,
                             Line("Environment variables configured", <<>>))
            /\ pc' = "run_file"
            /\ UNCHANGED result
    /\ UNCHANGED <<op, fileExists, tmVars, meeting_info, anVars, analysis_file,
                   nlVars, stack, pm_transcript_result, dlVars>>
    /\ UNCHANGED sent

\* Check if file exists, check file size
RUN_CheckFile ==
    /\ pc = "run_file"
    /\ IF ~fileExists
       THEN /\ trace' = Append(trace, "exists")
            /\ printed' = Append(printed, Line("Error: File not found", <<>>))
            /\ result' = RunResult(FALSE)
            /\ pc' = "returned"
       ELSE /\ trace' = trace \o <<"exists", "stat">>
            /\ printed' = printed \o <<Line("File size", FormatMB(fileSize))>>
                   \o (IF fileSize > 25 * MiB
                       THEN <<Line("Warning: File larger than 25MB", <<>>)>>
                       ELSE <<>>)
            /\ pc' = "run_process"
            /\ UNCHANGED result
    /\ UNCHANGED <<op, fileExists, tmVars, meeting_info, anVars, analysis_file,
                   nlVars, stack, pm_transcript_result, dlVars>>
    /\ UNCHANGED sent

\* result = await processor.process_meeting_file(file_path, meeting_info)
RUN_Process ==
    /\ pc = "run_process"
    /\ stack' = Append(stack, "test_meeting_pipeline")
    /\ op' = "process_meeting_file"
    /\ pc' = "pm_transcribe"
    /\ UNCHANGED <<fileExists, tmVars, meeting_info, result, trace, anVars,
                   analysis_file, nlVars, pm_transcript_result, printed, dlVars>>
    /\ UNCHANGED sent

\* Step 1: Transcribe
PM_Transcribe ==
    /\ pc = "pm_transcribe"
    /\ stack' = Append(stack, "process_meeting_file")
    /\ op' = "transcribe_meeting"
    /\ pc' = "tm_exists"
    /\ UNCHANGED <<fileExists, tmVars, meeting_info, result, trace, anVars,
                   analysis_file, nlVars, pm_transcript_result, printed, dlVars>>
    /\ UNCHANGED sent

\* The return of process_meeting_file to its caller
PM_Return(frames) ==
    IF frames = <<>>
    THEN /\ pc' = "returned"
         /\ op' = "process_meeting_file"
         /\ stack' = frames
    ELSE /\ pc' = "run_result"
         /\ op' = Top(frames)
         /\ stack' = Pop(frames)

\* A first step that goes on to the analysis whatever the transcription gave
PM_Transcribed_NoCheck ==
    /\ pc = "returned"
    /\ op = "transcribe_meeting"
    /\ stack # <<>>
    /\ Top(stack) = "process_meeting_file"
    /\ pm_transcript_result' = result
    /\ pc' = "pm_analyze"
    /\ op' = "process_meeting_file"
    /\ stack' = Pop(stack)
    /\ UNCHANGED <<fileExists, tmVars, meeting_info, result, trace, anVars,
                   analysis_file, nlVars, printed, dlVars>>
    /\ UNCHANGED sent

\* if not transcript_result["success"]: return transcript_result
PM_Transcribed ==
    /\ pc = "returned"
    /\ op = "transcribe_meeting"
    /\ stack # <<>>
    /\ Top(stack) = "process_meeting_file"
    /\ pm_transcript_result' = result
    /\ IF ~result.success
       THEN PM_Return(Pop(stack))
       ELSE /\ pc' = "pm_analyze"
            /\ op' = "process_meeting_file"
            /\ stack' = Pop(stack)
    /\ UNCHANGED <<fileExists, tmVars, meeting_info, result, trace, anVars,
                   analysis_file, nlVars, printed, dlVars>>
    /\ UNCHANGED sent

\* Step 2: Analyze, on transcript_result["transcript"]
PM_Analyze ==
    /\ pc = "pm_analyze"
    /\ transcript' = Text(pm_transcript_result.transcript)
    /\ stack' = Append(stack, "process_meeting_file")
    /\ op' = "analyze_transcript"
    /\ pc' = "at_request"
    /\ UNCHANGED <<fileExists, tmVars, meeting_info, result, trace, api_key,
                   chat_call, analysis_file, nlVars, pm_transcript_result,
                   printed, dlVars>>
    /\ UNCHANGED sent

\* Combine results and return
PM_Combine ==
    /\ pc = "returned"
    /\ op = "analyze_transcript"
    /\ stack # <<>>
    /\ Top(stack) = "process_meeting_file"
    /\ result' = Combine(pm_transcript_result, result, meeting_info)
    /\ PM_Return(Pop(stack))
    /\ UNCHANGED <<fileExists, tmVars, meeting_info, trace, anVars,
                   analysis_file, nlVars, pm_transcript_result, printed, dlVars>>
    /\ UNCHANGED sent

\* The runner's report of the result: failure line, or the findings, the
\* saved results and the cost; except Exception prints the error
RUN_Result ==
    /\ pc = "run_result"
    /\ op = "test_meeting_pipeline"
    /\ pc' = "returned"
    /\ IF ~result.success
       THEN /\ printed' = Append(printed, Line("Processing failed", ErrorsOf(result)))
            /\ result' = RunResult(FALSE)
            /\ UNCHANGED trace
       ELSE LET head == <<Line("Transcription completed", <<>>),
                          Line("Transcript length", Len(result.transcript))>>
            IN IF ~Truthy(result.analysis)
               THEN /\ printed' = printed \o head \o
                          <<Line("Analysis failed or returned no results", <<>>)>>
                    /\ result' = RunResult(FALSE)
                    /\ UNCHANGED trace
               ELSE IF RunnerRaises(result.analysis)
               THEN /\ printed' = printed \o head \o
                          <<Line("Analysis completed", <<>>),
                            Line("Error during processing", <<>>)>>
                    /\ result' = RunResult(FALSE)
                    /\ UNCHANGED trace
               ELSE /\ printed' = printed \o head \o
                          <<Line("Analysis completed", <<>>),
                            Line("Detailed results saved", <<>>),
                            Line("Estimated cost",
                                 result.processing_summary.transcription_cost)>>
                    /\ trace' = Append(trace, "write_results")
                    /\ result' = RunResult(TRUE)
    /\ UNCHANGED <<op, fileExists, tmVars, meeting_info, anVars, analysis_file,
                   nlVars, stack, pm_transcript_result, dlVars>>
    /\ UNCHANGED sent

----------------------------------------------------------------------------
(* app/main.py, app/api/downloads.py, app/api/meetings.py,                 *)
(* app/services/downloader.py                                              *)
(* A path is the sequence of its segments: "/api/downloads/info" is        *)
(* <<"api", "downloads", "info">> and a trailing "/" is an empty segment.  *)
(* A format and a file name are sequences of characters.                   *)

\* No request is being served
NoRequest == [method |-> "none", path |-> <<>>, url |-> None,
              format |-> <<>>, filename |-> None]

\* No response yet
NoResponse == [status |-> 0, detail |-> <<>>, body |-> <<>>]

\* router = APIRouter(prefix="/api/downloads") and its three routes
downloads_router ==
    [prefix |-> <<"api", "downloads">>,
     routes |-> {[method |-> "POST", path |-> <<"info">>, endpoint |-> "get_video_info"],
                 [method |-> "POST", path |-> <<"download">>, endpoint |-> "download_video"],
                 [method |-> "GET", path |-> <<"files">>, endpoint |-> "list_downloaded_files"]}]

\* router = APIRouter() of the meetings API and its two routes
meetings_router ==
    [prefix |-> <<>>,
     routes |-> {[method |-> "GET", path |-> <<"health">>, endpoint |-> "health_check"],
                 [method |-> "GET", path |-> <<"">>, endpoint |-> "meetings_info"]}]

\* app.include_router(router, prefix=...): each route is served at the
\* include prefix, then the router's own prefix, then the route's path
include_router(router, prefix) ==
    {[method |-> r.method,
      path |-> prefix \o router.prefix \o r.path,
      endpoint |-> r.endpoint] : r \in router.routes}

\* The routes of the application
app_routes ==
    include_router(downloads_router, <<"api", "downloads">>)
        \cup include_router(meetings_router, <<"api", "meetings">>)

\* The paths the landing page of main.py and the interface document
DocumentedRoutes ==
    {[method |-> "POST", path |-> <<"api", "downloads", "info">>,
      endpoint |-> "get_video_info"],
     [method |-> "POST", path |-> <<"api", "downloads", "download">>,
      endpoint |-> "download_video"],
     [method |-> "GET", path |-> <<"api", "downloads", "files">>,
      endpoint |-> "list_downloaded_files"],
     [method |-> "GET", path |-> <<"api", "meetings", "health">>,
      endpoint |-> "health_check"]}

\* Source URLs and the title the video-fetching library reports for each
Urls == {"https://youtu.be/a1", "https://youtu.be/b2", "https://youtu.be/c3"}

SourceTitle(url) ==
    IF url = "https://youtu.be/c3" THEN "Planning Commission"
    ELSE "City Council Meeting"

\* Values of the format field of a download request
Formats ==
    {<<"m", "p", "3">>, <<"M", "P", "3">>, <<"m", "p", "4">>, <<"M", "p", "4">>,
     <<"w", "a", "v">>, <<"m", "p", "3", " ">>, <<>>}

\* Values of the filename field of a download request
FilenameHints == {None, "", "meeting"}

\* Messages of the errors the video-fetching library raises
DlCauses == {"ERROR: Video unavailable", "ERROR: Unable to download webpage"}

\* Largest number of acquisitions the model follows
MaxDownloads == 2

\* str.lower() on one character
LowerChar(c) ==
    CASE c = "M" -> "m"
      [] c = "P" -> "p"
      [] c = "W" -> "w"
      [] c = "A" -> "a"
      [] c = "V" -> "v"
      [] OTHER -> c

\* str.lower()
lower(s) == [i \in 1..Len(s) |-> LowerChar(s[i])]

\* A dispatch that takes every other format for audio
SelectDownload_DefaultAudio(format) ==
    IF lower(format) = <<"m", "p", "4">> THEN "download_video" ELSE "download_audio"

\* if request.format.lower() == "mp3" ... elif ... == "mp4" ... else raise
SelectDownload(format) ==
    IF lower(format) = <<"m", "p", "3">> THEN "download_audio"
    ELSE IF lower(format) = <<"m", "p", "4">> THEN "download_video"
    ELSE "unsupported"

\* str(e) of an HTTPException: "<status>: <detail>" in the releases of the
\* framework that define __str__, the empty string in those that do not
StrHTTPException(status, detail) ==
    {ToString(status) \o ": " \o detail, ""}

\* A handler that answers a failed info request with a fixed message
InfoFailed_Generic(e) ==
    [status |-> 400, detail |-> <<"Error getting video info: ", "request failed">>,
     body |-> <<>>]

\* get_video_info's handler: except Exception as e
InfoFailed(e) ==
    [status |-> 400, detail |-> <<"Error getting video info: ", e>>, body |-> <<>>]

\* download_video's handler: except Exception as e
DownloadFailed(e) ==
    [status |-> 400, detail |-> <<"Download failed: ", e>>, body |-> <<>>]

\* A response with a body
Ok(body) == [status |-> 200, detail |-> <<>>, body |-> <<body>>]

\* The response to a request no route matches
NotFound == [status |-> 404, detail |-> <<"Not Found">>, body |-> <<>>]

\* outtmpl: download_dir / '%(title)s.%(ext)s', or the filename hint in
\* place of the title when the hint is truthy
OutPath(url, filename, ext) ==
    "downloads/"
        \o (IF filename # None /\ filename # "" THEN filename ELSE SourceTitle(url))
        \o "." \o ext

\* The extensions the library writes for 'bestaudio/best' and 'best[ext=mp4]'
Exts(which) == IF which = "download_audio" THEN {"webm", "m4a"} ELSE {"mp4"}

\* The dict download_audio and download_video return
DownloadResult(url, which, path, has_filename) ==
    [title |-> SourceTitle(url),
     duration |-> 3600,
     filename |-> IF has_filename THEN path
                  ELSE IF which = "download_audio" THEN "unknown.mp3"
                  ELSE "unknown.mp4"]

\* The requests a client sends
Requests ==
    {[method |-> "POST", path |-> p, url |-> u, format |-> <<>>, filename |-> None] :
        p \in {<<"api", "downloads", "info">>,
               <<"api", "downloads", "api", "downloads", "info">>},
        u \in Urls}
    \cup
    {[method |-> "POST", path |-> p, url |-> u, format |-> f, filename |-> n] :
        p \in {<<"api", "downloads", "download">>,
               <<"api", "downloads", "api", "downloads", "download">>},
        u \in Urls, f \in Formats, n \in FilenameHints}
    \cup
    {[method |-> "GET", path |-> p, url |-> None, format |-> <<>>, filename |-> None] :
        p \in {<<"api", "downloads", "files">>,
               <<"api", "downloads", "api", "downloads", "files">>,
               <<"api", "meetings", "health">>,
               <<"api", "meetings", "">>,
               <<"health">>}}

\* The routes that match a request
Matching(req) ==
    {r \in app_routes : r.method = req.method /\ r.path = req.path}

\* The application receives a request and routes it
HTTP_Request ==
    /\ pc = "idle"
    /\ \E req \in Requests :
        /\ \A r \in Matching(req) :
              r.endpoint = "download_video" => Cardinality(written) < MaxDownloads
        /\ request' = req
        /\ IF Matching(req) = {}
           THEN /\ response' = NotFound
                /\ op' = "app"
                /\ pc' = "returned"
           ELSE /\ op' = (CHOOSE r \in Matching(req) : TRUE).endpoint
                /\ pc' = "handle"
                /\ UNCHANGED response
    /\ UNCHANGED <<fileExists, tmVars, meeting_info, result, trace, anVars,
                   analysis_file, nlVars, pmVars, written, dirExists, dirFiles>>
    /\ UNCHANGED sent

\* get_video_info: extract_info(url, download=False), once
GI_Handle ==
    /\ pc = "handle"
    /\ op = "get_video_info"
    /\ trace' = trace \o <<"get_video_info", "extract_info">>
    /\ \/ \E c \in DlCauses :
            /\ result' = [raised |-> c]
            /\ response' = InfoFailed(c)
       \/ /\ result' = [title |-> SourceTitle(request.url), duration |-> 3600,
                        thumbnail |-> "", uploader |-> "Unknown"]
          /\ response' = Ok([success |-> TRUE, info |-> result'])
    /\ pc' = "returned"
    /\ UNCHANGED <<op, fileExists, tmVars, meeting_info, anVars, analysis_file,
                   nlVars, pmVars, request, written, dirExists, dirFiles>>
    /\ UNCHANGED sent

\* download_video: dispatch on the format, download_audio or download_video
\* of the downloader (extract_info(url, download=True), once), the success
\* body, and except Exception as e
DV_Handle ==
    /\ pc = "handle"
    /\ op = "download_video"
    /\ LET which == SelectDownload(request.format)
       IN IF which = "unsupported"
          THEN /\ \E e \in StrHTTPException(400, "Format must be 'mp3' or 'mp4'") :
                     response' = DownloadFailed(e)
               /\ result' = [raised |-> "HTTPException"]
               /\ UNCHANGED <<trace, written>>
          ELSE /\ trace' = trace \o <<which, "extract_info">>
               /\ \/ \E c \in DlCauses :
                       /\ result' = [raised |-> c]
                       /\ response' = DownloadFailed(c)
                       /\ UNCHANGED written
                  \/ \E ext \in Exts(which), has_filename \in BOOLEAN :
                       LET path == OutPath(request.url, request.filename, ext)
                       IN /\ written' = written \cup
                                 {[url |-> request.url, path |-> path]}
                          /\ result' = DownloadResult(request.url, which, path,
                                                      has_filename)
                          /\ response' =
                                 Ok([success |-> TRUE,
                                     message |-> "Download completed successfully",
                                     result |-> result'])
    /\ pc' = "returned"
    /\ UNCHANGED <<op, fileExists, tmVars, meeting_info, anVars, analysis_file,
                   nlVars, pmVars, request, dirExists, dirFiles>>
    /\ UNCHANGED sent

\* The files a download directory can hold, each with its size in bytes
DirEntries ==
    {[filename |-> <<"a", ".", "m", "p", "3">>, size |-> 131072],
     [filename |-> <<"b", ".", "m", "p", "4">>, size |-> 5242880],
     [filename |-> <<"c", ".", "M", "P", "3">>, size |-> 3000000],
     [filename |-> <<"d", ".", "m", "p", "3", ".", "p", "a", "r", "t">>, size |-> 1000],
     [filename |-> <<"m", "p", "3">>, size |-> 0],
     [filename |-> <<".", "m", "p", "4">>, size |-> 0],
     [filename |-> <<"n", ".", "t", "x", "t">>, size |-> 12]}

\* Largest number of files in the download directory
MaxListed == 2

\* What os.listdir can return: the files in any order
RECURSIVE Listings(_)
Listings(n) ==
    IF n = 0 THEN {<<>>}
    ELSE Listings(n - 1) \cup
         {Append(l, e) : l \in {k \in Listings(n - 1) : Len(k) = n - 1},
                         e \in DirEntries}

\* Listings without a repeated file name
DirListings ==
    {l \in Listings(MaxListed) :
        \A i, j \in 1..Len(l) : i # j => l[i].filename # l[j].filename}

\* str.endswith(suffix)
endswith(name, suffix) ==
    /\ Len(name) >= Len(suffix)
    /\ SubSeq(name, Len(name) - Len(suffix) + 1, Len(name)) = suffix

\* A filter that compares the extension without regard to case
IsMedia_AnyCase(name) ==
    \/ endswith(lower(name), <<".", "m", "p", "3">>)
    \/ endswith(lower(name), <<".", "m", "p", "4">>)

\* filename.endswith(('.mp3', '.mp4'))
IsMedia(name) ==
    \/ endswith(name, <<".", "m", "p", "3">>)
    \/ endswith(name, <<".", "m", "p", "4">>)

\* round(file_size / (1024 * 1024), 2), in hundredths of a MiB (ties to even)
size_mb(file_size) ==
    LET q == (file_size * 100) \div MiB
        r == (file_size * 100) % MiB
    IN IF 2 * r < MiB THEN q
       ELSE IF 2 * r > MiB THEN q + 1
       ELSE IF q % 2 = 0 THEN q ELSE q + 1

\* The loop of list_downloaded_files over os.listdir
RECURSIVE ListFiles(_, _)
ListFiles(listing, i) ==
    IF i > Len(listing) THEN <<>>
    ELSE (IF IsMedia(listing[i].filename)
          THEN <<[filename |-> listing[i].filename,
                  size |-> listing[i].size,
                  size_mb |-> size_mb(listing[i].size)]>>
          ELSE <<>>) \o ListFiles(listing, i + 1)

\* list_downloaded_files: no directory gives no files
LF_Handle ==
    /\ pc = "handle"
    /\ op = "list_downloaded_files"
    /\ \E e \in BOOLEAN, l \in DirListings :
        /\ dirExists' = e
        /\ dirFiles' = IF e THEN l ELSE <<>>
    /\ IF ~dirExists'
       THEN /\ trace' = Append(trace, "exists")
            /\ response' = Ok([files |-> <<>>])
       ELSE /\ trace' = trace \o <<"exists", "listdir">>
            /\ response' = Ok([files |-> ListFiles(dirFiles', 1)])
    /\ pc' = "returned"
    /\ UNCHANGED <<op, fileExists, tmVars, meeting_info, result, anVars,
                   analysis_file, nlVars, pmVars, request, written>>
    /\ UNCHANGED sent

\* health_check of the meetings API
HC_Handle ==
    /\ pc = "handle"
    /\ op = "health_check"
    /\ response' = Ok([status |-> "healthy",
                       service |-> "Triangle Meeting Analysis API",
                       timestamp |-> Now,
                       message |-> "Meetings API is ready for development"])
    /\ pc' = "returned"
    /\ UNCHANGED <<op, fileExists, tmVars, meeting_info, result, trace, anVars,
                   analysis_file, nlVars, pmVars, request, written, dirExists,
                   dirFiles>>
    /\ UNCHANGED sent

\* meetings_info of the meetings API
MI_Handle ==
    /\ pc = "handle"
    /\ op = "meetings_info"
    /\ response' = Ok([message |-> "Triangle Meeting Intelligence API",
                       status |-> "MVP Development Phase"])
    /\ pc' = "returned"
    /\ UNCHANGED <<op, fileExists, tmVars, meeting_info, result, trace, anVars,
                   analysis_file, nlVars, pmVars, request, written, dirExists,
                   dirFiles>>
    /\ UNCHANGED sent

----------------------------------------------------------------------------

Init ==
    /\ pc = "idle"
    /\ op = "none"
    /\ fileExists = FALSE
    /\ fileSize = 0
    /\ meeting_info = CHOOSE m \in MeetingInfos : TRUE
    /\ transcript_result = [success |-> FALSE]
    /\ result = [success |-> FALSE]
    /\ stt_call = NoCall
    /\ trace = <<>>
    /\ transcript = <<>>
    /\ api_key = TRUE
    /\ chat_call = NoChat
    /\ analysis_file = NoFile
    /\ data = JNull
    /\ newsletter_sections = NoSections
    /\ gen_calls = NoGenCalls
    /\ display = <<>>
    /\ newsletter_file = <<>>
    /\ stack = <<>>
    /\ pm_transcript_result = [success |-> FALSE]
    /\ printed = <<>>
    /\ request = NoRequest
    /\ response = NoResponse
    /\ written = {}
    /\ dirExists = TRUE
    /\ dirFiles = <<>>
    /\ sent = <<>>

\* The invocation is over and its caller (main) ends: the locals are gone,
\* the files stay on disk
Finish ==
    /\ pc \in {"returned", "raised"}
    /\ stack = <<>>
    /\ pc' = "idle"
    /\ op' = "none"
    /\ fileExists' = FALSE
    /\ fileSize' = 0
    /\ meeting_info' = CHOOSE m \in MeetingInfos : TRUE
    /\ transcript_result' = [success |-> FALSE]
    /\ result' = [success |-> FALSE]
    /\ stt_call' = NoCall
    /\ trace' = <<>>
    /\ transcript' = <<>>
    /\ api_key' = TRUE
    /\ chat_call' = NoChat
    /\ data' = JNull
    /\ newsletter_sections' = NoSections
    /\ gen_calls' = NoGenCalls
    /\ display' = <<>>
    /\ newsletter_file' = <<>>
    /\ pm_transcript_result' = [success |-> FALSE]
    /\ printed' = <<>>
    /\ request' = NoRequest
    /\ response' = NoResponse
    /\ dirExists' = TRUE
    /\ dirFiles' = <<>>
    /\ sent' = <<>>
    /\ UNCHANGED <<analysis_file, stack, written>>

\* Every operation
Next ==
    \/ Finish
    \/ PM_Call \/ RUN_Call \/ RUN_CheckEnvironment \/ RUN_CheckFile \/ RUN_Process
    \/ PM_Transcribe \/ PM_Transcribed \/ PM_Analyze \/ PM_Combine \/ RUN_Result
    \/ HTTP_Request \/ GI_Handle \/ DV_Handle \/ LF_Handle \/ HC_Handle \/ MI_Handle
    \/ TM_Call \/ TM_CheckExists \/ TM_CheckSize \/ TM_TranscribeFile \/ TM_Enhance
    \/ AT_Call \/ AT_Request
    \/ CLI_Call \/ CLI_Read \/ CLI_CheckKey \/ CLI_Request
    \/ NL_Call \/ NL_CallOn \/ NL_Load \/ NL_CheckKey \/ NL_ProjectPipeline
    \/ NL_MarketIntelligence \/ NL_RegulatoryWatch \/ NL_PeoplePolitics
    \/ NL_ExecutiveSummary \/ NL_DisplayAndSave
    \/ GS_Call \/ GS_Generate

\* Runs of transcribe_meeting
NextTranscription ==
    \/ Finish
    \/ TM_Call \/ TM_CheckExists \/ TM_CheckSize \/ TM_TranscribeFile \/ TM_Enhance

\* Runs of the two analyze_transcript
NextAnalysis ==
    \/ Finish
    \/ AT_Call \/ AT_Request
    \/ CLI_Call \/ CLI_Read \/ CLI_CheckKey \/ CLI_Request

\* Runs of the analysis CLI followed by runs of the newsletter generator
NextNewsletter ==
    \/ Finish
    \/ CLI_Call \/ CLI_Read \/ CLI_CheckKey \/ CLI_Request
    \/ NL_Call \/ NL_Load \/ NL_CheckKey \/ NL_ProjectPipeline
    \/ NL_MarketIntelligence \/ NL_RegulatoryWatch \/ NL_PeoplePolitics
    \/ NL_ExecutiveSummary \/ NL_DisplayAndSave

\* Runs of the newsletter generator on any analysis file
NextComposition ==
    \/ Finish
    \/ NL_Call \/ NL_CallOn \/ NL_Load \/ NL_CheckKey \/ NL_ProjectPipeline
    \/ NL_MarketIntelligence \/ NL_RegulatoryWatch \/ NL_PeoplePolitics
    \/ NL_ExecutiveSummary \/ NL_DisplayAndSave

\* Runs of the three command-line tools
NextTools ==
    \/ Finish
    \/ CLI_Call \/ CLI_Read \/ CLI_CheckKey \/ CLI_Request
    \/ NL_Call \/ NL_CallOn \/ NL_Load \/ NL_CheckKey \/ NL_ProjectPipeline
    \/ NL_MarketIntelligence \/ NL_RegulatoryWatch \/ NL_PeoplePolitics
    \/ NL_ExecutiveSummary \/ NL_DisplayAndSave
    \/ RUN_Call \/ RUN_CheckEnvironment \/ RUN_CheckFile \/ RUN_Process
    \/ PM_Transcribe \/ PM_Transcribed \/ PM_Analyze \/ PM_Combine \/ RUN_Result
    \/ TM_CheckExists \/ TM_CheckSize \/ TM_TranscribeFile \/ TM_Enhance
    \/ AT_Request

\* Runs of process_meeting_file, called directly or by the runner
NextPipeline ==
    \/ Finish
    \/ PM_Call \/ RUN_Call \/ RUN_CheckEnvironment \/ RUN_CheckFile \/ RUN_Process
    \/ PM_Transcribe \/ PM_Transcribed \/ PM_Analyze \/ PM_Combine \/ RUN_Result
    \/ TM_CheckExists \/ TM_CheckSize \/ TM_TranscribeFile \/ TM_Enhance
    \/ AT_Request

\* Runs of each stage on its own: the transcription, the two analyses and
\* the newsletter generator
NextStages ==
    \/ Finish
    \/ TM_Call \/ TM_CheckExists \/ TM_CheckSize \/ TM_TranscribeFile \/ TM_Enhance
    \/ AT_Call \/ AT_Request
    \/ CLI_Call \/ CLI_Read \/ CLI_CheckKey \/ CLI_Request
    \/ NL_Call \/ NL_Load \/ NL_CheckKey \/ NL_ProjectPipeline
    \/ NL_MarketIntelligence \/ NL_RegulatoryWatch \/ NL_PeoplePolitics
    \/ NL_ExecutiveSummary \/ NL_DisplayAndSave

\* A section generator called twice on the same inputs
NextSections ==
    \/ Finish
    \/ GS_Call \/ GS_Generate

\* Requests to the HTTP API
NextApi ==
    \/ Finish
    \/ HTTP_Request \/ GI_Handle \/ DV_Handle \/ LF_Handle \/ HC_Handle \/ MI_Handle

Spec == Init /\ [][Next]_vars
SpecPipeline == Init /\ [][NextPipeline]_vars
SpecComposition == Init /\ [][NextComposition]_vars
SpecTools == Init /\ [][NextTools]_vars
SpecApi == Init /\ [][NextApi]_vars
SpecSections == Init /\ [][NextSections]_vars
SpecStages == Init /\ [][NextStages]_vars
SpecTranscription == Init /\ [][NextTranscription]_vars
SpecAnalysis == Init /\ [][NextAnalysis]_vars
SpecNewsletter == Init /\ [][NextNewsletter]_vars

----------------------------------------------------------------------------
(* Properties                                                              *)

Range(f) == {f[i] : i \in DOMAIN f}

\* transcribe_meeting has returned
TM_Returned == op = "transcribe_meeting" /\ pc = "returned"

\* The size a <<whole, tenth>> pair names is within 0.05 MiB of size
NamesSize(mb, size) ==
    LET named == (mb[1] * 10 + mb[2]) * MiB
    IN named - size * 10 <= MiB \div 2 /\ size * 10 - named <= MiB \div 2

\* C1: for an existing file larger than 26,214,400 bytes transcribe_meeting
\* returns success=false with a null transcript, an error naming the size
\* and a suggestion, and never calls the speech-to-text endpoint.
C1_LargeFileRejected ==
    (op = "transcribe_meeting" /\ fileExists /\ fileSize > 26214400) =>
        /\ "stt" \notin Range(trace)
        /\ pc \notin {"tm_transcribe", "tm_enhance"}
        /\ pc = "returned" =>
              /\ result.success = FALSE
              /\ result.transcript = None
              /\ result.error[1] = "File too large ("
              /\ NamesSize(result.error[2], fileSize)
              /\ "suggestion" \in DOMAIN result

C1_Witness ==
    /\ TM_Returned /\ fileExists /\ fileSize = 26214401
    /\ "suggestion" \in DOMAIN result

\* C2: transcribe_meeting never raises outward; what it returns carries a
\* boolean success, and when the endpoint call raised the result has
\* success=false, a null transcript and an error embedding the cause.
C2_AlwaysReturnsResult ==
    op = "transcribe_meeting" =>
        /\ pc # "raised"
        /\ pc = "returned" =>
              /\ result.success \in BOOLEAN
              /\ stt_call.status = "raised" =>
                    /\ result.success = FALSE
                    /\ result.transcript = None
                    /\ stt_call.cause \in Range(result.error)

C2_Witness ==
    /\ TM_Returned /\ stt_call.status = "raised"
    /\ stt_call.cause = "Rate limit reached"
    /\ result.success = FALSE

\* C3 as stated: whenever the endpoint call succeeds the result is
\* success=true with a non-empty transcript.
C3_NonEmptyOnSuccess ==
    (TM_Returned /\ stt_call.status = "ok") =>
        /\ result.success = TRUE
        /\ result.transcript \notin {"", None}

\* C3 (amended): whenever the endpoint call succeeds the result is
\* success=true and its transcript is exactly the text the endpoint
\* returned, never null, and empty only when that text is empty.
C3_TranscriptIsEndpointText ==
    (TM_Returned /\ stt_call.status = "ok") =>
        /\ result.success = TRUE
        /\ result.transcript = stt_call.text
        /\ result.transcript # None

C3_Witness ==
    /\ TM_Returned /\ stt_call.status = "ok"
    /\ result.success = TRUE /\ result.transcript = "item one approved"

\* C4: for a path that does not exist transcribe_meeting returns the
\* file-not-found failure; the existence check is the first external call
\* and neither the size check nor the speech-to-text call happens.
C4_MissingFile ==
    op = "transcribe_meeting" =>
        /\ trace # <<>> => trace[1] = "exists"
        /\ ~fileExists =>
              /\ Range(trace) \subseteq {"exists"}
              /\ pc = "returned" =>
                    /\ result.success = FALSE
                    /\ result.transcript = None
                    /\ result.error = <<"File not found: ", file_path>>

C4_Witness ==
    TM_Returned /\ ~fileExists /\ trace = <<"exists">>

\* The service's analyze_transcript, the CLI's, have returned
AT_Returned == op = "analyze_transcript" /\ pc = "returned"
CLI_Returned == op = "cli_analyze_transcript" /\ pc = "returned"

\* The record that holds nothing but the raw text
RawOnly(text) == JDict(<<Str("raw_analysis")>>, <<JStr(text)>>)

StructuredFields ==
    {"projects", "key_people", "regulatory_changes", "market_intelligence",
     "newsletter_highlights"}

\* C5: on a response whose text is no JSON document, both the service and
\* the CLI yield the record that holds only raw_analysis, with the whole
\* response text and no structured field, and the service's success is true.
C5_RawFallback ==
    (chat_call.status = "ok" /\ chat_call.kind = "unparseable") =>
        /\ AT_Returned =>
              /\ result.success = TRUE
              /\ result.analysis = RawOnly(chat_call.content)
              /\ \A f \in StructuredFields : ~HasKey(result.analysis, f)
        /\ CLI_Returned =>
              /\ result = RawOnly(chat_call.content)
              /\ \A f \in StructuredFields : ~HasKey(result, f)

C5_Witness ==
    /\ AT_Returned /\ chat_call.kind = "unparseable"
    /\ Len(chat_call.content) > 2
    /\ chat_call.content[1] = W("<fence json>")
    /\ result.success = TRUE

\* C6: on a response that is a JSON document matching the schema, the
\* analysis returned is exactly that data: no field added, dropped,
\* renamed or coerced.
C6_ExactFields ==
    (chat_call.status = "ok" /\ chat_call.kind = "schema") =>
        /\ AT_Returned =>
              /\ result.success = TRUE
              /\ result.analysis = chat_call.data
        /\ CLI_Returned => result = chat_call.data

C6_Witness ==
    /\ AT_Returned /\ chat_call.kind = "schema"
    /\ result.success = TRUE
    /\ result.analysis = OneProject

\* C7 as stated: success is false exactly when the text-generation call
\* itself raised; every response the endpoint delivers gives success=true.
C7_SuccessIsCallStatus ==
    AT_Returned =>
        /\ result.success = FALSE <=> chat_call.status = "raised"
        /\ result.success = FALSE =>
              result.analysis = JNull /\ "error" \in DOMAIN result

\* generate_newsletter_content has returned the section mapping
NL_ReturnedSections ==
    /\ op = "generate_newsletter_content" /\ pc = "returned"
    /\ "ks" \in DOMAIN result

\* A list with at least one element
NonEmptyList(v) == v.t = "list" /\ Len(v.items) > 0

\* C8: the section mapping has exactly the keys executive_summary,
\* market_intelligence and regulatory_watch, plus project_pipeline iff
\* projects is non-empty, plus people_politics iff key_people is non-empty.
C8_SectionKeys ==
    NL_ReturnedSections =>
        /\ Range(result.ks) =
              {"executive_summary", "market_intelligence", "regulatory_watch"}
              \cup (IF NonEmptyList(DictGet(NL_analysis, "projects", JNull))
                    THEN {"project_pipeline"} ELSE {})
              \cup (IF NonEmptyList(DictGet(NL_analysis, "key_people", JNull))
                    THEN {"people_politics"} ELSE {})
        /\ Len(result.ks) = Cardinality(Range(result.ks))

C8_Witness ==
    /\ NL_ReturnedSections
    /\ Len(DictGet(NL_analysis, "projects", JNull).items) = 1
    /\ DictGet(NL_analysis, "key_people", JNull) = JList(<<>>)
    /\ Range(result.ks) = {"executive_summary", "project_pipeline",
                           "market_intelligence", "regulatory_watch"}

\* The loaded data make the run raise whatever the endpoint does
DataAborts ==
    \/ json_loads(analysis_file).status # "ok"
    \/ data.t # "dict"
    \/ NL_meeting_info.t # "dict"
    \/ NL_analysis.t # "dict"
    \/ DictGet(NL_analysis, "newsletter_highlights", JList(<<>>)).t \in {"null", "num"}
    \/ DictGet(NL_meeting_info, "jurisdiction", S("triangle")).t # "str"

\* The sections the gating lets in
GatedIn ==
    {"executive_summary", "market_intelligence", "regulatory_watch"}
    \cup (IF NonEmptyList(DictGet(NL_analysis, "projects", JNull))
          THEN {"project_pipeline"} ELSE {})
    \cup (IF NonEmptyList(DictGet(NL_analysis, "key_people", JNull))
          THEN {"people_politics"} ELSE {})

\* C9: a section whose generation call raised holds an error text that
\* embeds the cause, every section whose call answered holds that answer,
\* a failed call never makes the run raise, and every gated-in section's
\* call has been issued when the sections are displayed and saved.
C9_FailureIsolated ==
    op = "generate_newsletter_content" =>
        /\ \A i \in 1..Len(newsletter_sections.ks) :
              LET k == newsletter_sections.ks[i]
                  v == newsletter_sections.vals[i]
              IN /\ gen_calls[k].status = "raised" =>
                       Len(v) = 2 /\ v[2] = gen_calls[k].cause
                 /\ gen_calls[k].status = "ok" => v = gen_calls[k].content
                 /\ gen_calls[k].status # "none"
        /\ pc = "raised" => DataAborts
        /\ pc = "nl_output" \/ NL_ReturnedSections =>
              \A k \in GatedIn :
                 gen_calls[k].status # "none" /\ InSections(newsletter_sections, k)

C9_Witness ==
    /\ NL_ReturnedSections
    /\ gen_calls["market_intelligence"].status = "raised"
    /\ \A k \in SectionKeys \ {"market_intelligence"} :
          /\ gen_calls[k].status = "ok"
          /\ InSections(result, k)
          /\ SectionGet(result, k) = <<"Headline and prose for ", k>>
    /\ SectionGet(result, "market_intelligence") =
          <<"Error generating market intelligence content: ", "Rate limit reached">>

\* The order of the sections in the assembled newsletter
FixedOrder ==
    <<"executive_summary", "project_pipeline", "market_intelligence",
      "regulatory_watch", "people_politics">>

Pos(k) == CHOOSE i \in 1..Len(FixedOrder) : FixedOrder[i] = k

\* The keys of the headings of an output, in the order they appear
HeadingKeys(blocks) ==
    LET idx == {i \in 1..Len(blocks) : blocks[i].kind = "heading"}
        F[n \in 0..Len(blocks)] ==
            IF n = 0 THEN <<>>
            ELSE IF n \in idx THEN Append(F[n - 1], blocks[n].key)
            ELSE F[n - 1]
    IN F[Len(blocks)]

\* The headings of an output follow the fixed order, belong to sections of
\* the mapping only, and no content block is empty
InFixedOrder(blocks, sections) ==
    LET hk == HeadingKeys(blocks)
    IN /\ \A i, j \in 1..Len(hk) : i < j => Pos(hk[i]) < Pos(hk[j])
       /\ \A i \in 1..Len(blocks) :
             blocks[i].key # "" => InSections(sections, blocks[i].key)
       /\ \A i \in 1..Len(blocks) :
             blocks[i].kind = "content" =>
                 blocks[i].text # <<>> /\ blocks[i].text # NoneContent
       /\ \A k \in Range(sections.ks) :
             ContentTruthy(SectionGet(sections, k)) => k \in Range(hk)

\* C10: in the saved file and in the display the sections appear in the
\* fixed order, whatever the order of the generation calls; a section that
\* is not in the mapping leaves no heading and no block.
C10_FixedOrder ==
    op = "generate_newsletter_content" =>
        /\ display # <<>> => InFixedOrder(display, newsletter_sections)
        /\ newsletter_file # <<>> => InFixedOrder(newsletter_file, newsletter_sections)
        /\ NL_ReturnedSections => newsletter_file # <<>> /\ display # <<>>

C10_Witness ==
    /\ NL_ReturnedSections
    /\ trace[Len(trace) - 1] = "executive_summary"
    /\ HeadingKeys(newsletter_file) =
          <<"executive_summary", "market_intelligence", "regulatory_watch",
            "people_politics">>
    /\ HeadingKeys(display) = HeadingKeys(newsletter_file)
    /\ ~InSections(result, "project_pipeline")

----------------------------------------------------------------------------
(* Properties of the pipeline and of the HTTP API                          *)

\* A run of process_meeting_file has returned to an integration
PM_Returned == op = "process_meeting_file" /\ pc = "returned"

\* process_meeting_file has returned, to an integration or to the runner
PM_Delivered ==
    \/ PM_Returned
    \/ op = "test_meeting_pipeline" /\ pc = "run_result"

\* The analysis of this run failed: the call raised or its answer did not parse
AnalysisFailedInRun ==
    \/ chat_call.status = "raised"
    \/ chat_call.status = "ok" /\ ParseAnalysis(chat_call.content).raised

\* C11: every result process_meeting_file returns carries an errors mapping
\* whose transcription_error is non-null exactly when the transcription
\* failed and whose analysis_error is non-null exactly when the analysis
\* failed.
C11_ErrorsAggregated ==
    PM_Delivered =>
        /\ "errors" \in DOMAIN result
        /\ (result.errors.transcription_error # NoneMsg)
               <=> ~pm_transcript_result.success
        /\ (result.errors.analysis_error # NoneMsg) <=> AnalysisFailedInRun

\* Position of the first call named c in the trace (0 if there is none)
FirstCall(c) ==
    IF c \in Range(trace)
    THEN CHOOSE i \in 1..Len(trace) :
             trace[i] = c /\ \A j \in 1..(i - 1) : trace[j] # c
    ELSE 0

\* C12: in a run of process_meeting_file the analysis call is issued only
\* after the transcription returned success, and after the speech-to-text
\* call; it receives exactly the transcript the transcription returned; a
\* run whose transcription failed never issues an analysis call.
C12_StagesInSequence ==
    /\ (pc = "at_request" \/ "chat" \in Range(trace)) =>
           /\ pm_transcript_result.success
           /\ stt_call.status = "ok"
           /\ transcript = Text(pm_transcript_result.transcript)
    /\ "chat" \in Range(trace) =>
           /\ FirstCall("stt") > 0
           /\ FirstCall("stt") < FirstCall("chat")
    /\ (PM_Delivered /\ ~pm_transcript_result.success) =>
           /\ "chat" \notin Range(trace)
           /\ chat_call = NoChat

\* C12 witnesses: a run that analysed a non-empty transcript
C12_Witness ==
    /\ PM_Delivered
    /\ "chat" \in Range(trace)
    /\ transcript = <<W("item one approved")>>
    /\ result.success

\* C13: a download request whose format is neither "mp3" nor "mp4",
\* compared without regard to case, is answered with status 400, and
\* neither download_audio nor download_video is invoked for it.
C13_UnsupportedFormat ==
    (/\ op = "download_video"
     /\ pc = "returned"
     /\ lower(request.format) \notin {<<"m", "p", "3">>, <<"m", "p", "4">>}) =>
        /\ response.status = 400
        /\ response.body = <<>>
        /\ "download_audio" \notin Range(trace)
        /\ "download_video" \notin Range(trace)
        /\ "extract_info" \notin Range(trace)

\* C13 witnesses: a request for "wav" was refused
C13_Witness ==
    /\ op = "download_video"
    /\ pc = "returned"
    /\ request.format = <<"w", "a", "v">>
    /\ response.status = 400

\* Number of calls named c in the trace
Calls(c) == Cardinality({i \in 1..Len(trace) : trace[i] = c})

\* C14: a failure the video-fetching library raises during the info or
\* the download operation is answered with status 400 and a detail that
\* ends in the library's message, unchanged; the operation was attempted
\* once and no success body is returned.
C14_LibraryFailure ==
    (/\ pc = "returned"
     /\ op \in {"get_video_info", "download_video"}
     /\ "raised" \in DOMAIN result
     /\ result.raised \in DlCauses) =>
        /\ response.status = 400
        /\ response.detail =
               <<IF op = "get_video_info" THEN "Error getting video info: "
                 ELSE "Download failed: ", result.raised>>
        /\ response.body = <<>>
        /\ Calls("extract_info") = 1

\* C14 witnesses: a download the library failed, after one that it did
C14_Witness ==
    /\ pc = "returned"
    /\ op = "download_video"
    /\ "raised" \in DOMAIN result
    /\ result.raised = "ERROR: Video unavailable"
    /\ response.detail = <<"Download failed: ", "ERROR: Video unavailable">>
    /\ Calls("extract_info") = 1
    /\ written # {}

\* C15: each documented path (/api/downloads/info, /api/downloads/download,
\* /api/downloads/files, /api/meetings/health) is the effective path of
\* its route: a request to it is served by that route's endpoint.
C15_DocumentedPaths ==
    \A d \in DocumentedRoutes :
        (/\ pc \in {"handle", "returned"}
         /\ request.method = d.method
         /\ request.path = d.path) =>
            /\ op = d.endpoint
            /\ d \in app_routes

\* The names of a listing
Names(l) == {l[i].filename : i \in 1..Len(l)}

C17_CredentialCheckedFirst ==
    (/\ op \in {"cli_analyze_transcript", "generate_newsletter_content",
                "test_meeting_pipeline"}
     /\ ~api_key) =>
        /\ "read_transcript" \notin Range(trace)
        /\ "read_analysis" \notin Range(trace)
        /\ "chat" \notin Range(trace)
        /\ pc # "raised"

\* The runner has printed a line with this label
Printed(label) == \E i \in 1..Len(printed) : printed[i].label = label

\* C18: when the analysis fails after the transcription succeeded, the
\* combined result carries transcription_cost and the runner displays the
\* cost estimate.
C18_CostShownOnPartialFailure ==
    /\ (PM_Delivered /\ pm_transcript_result.success /\ AnalysisFailedInRun) =>
           /\ "processing_summary" \in DOMAIN result
           /\ result.processing_summary.transcription_cost =
                  pm_transcript_result.cost_estimate
    /\ (/\ op = "test_meeting_pipeline"
        /\ pc = "returned"
        /\ pm_transcript_result.success
        /\ AnalysisFailedInRun) => Printed("Estimated cost")

\* C19: generate_newsletter_content never raises outward: whatever the
\* analysis file holds, it returns None or the section mapping.
C19_NeverRaises ==
    op = "generate_newsletter_content" => pc # "raised"

\* C20: two acquisitions of different source URLs never write to the same
\* local path.
C20_CollisionFree ==
    \A a, b \in written : a.url # b.url => a.path # b.path

----------------------------------------------------------------------------
(* Properties of prompts, costs and counts of requests                     *)

\* A section generator returned from its second call
GS_Returned == pc = "returned" /\ op \in {Generator(k) : k \in SectionKeys}

C22_TranscriptTruncated ==
    (pc = "returned" /\ op \in {"analyze_transcript", "cli_analyze_transcript"}
        /\ sent # <<>>) =>
        /\ Chars(sent[1].user.transcript) <= 12000
        /\ sent[1].user.transcript = Slice(transcript, 12000)

\* C23: the cost estimate of a successful transcription is the duration
\* the endpoint reports, expressed in minutes, times 0.006 USD. The
\* endpoint reports seconds and the cost is held in thousandths of a
\* dollar: d seconds are d/60 minutes and cost d/10 thousandths.
C23_CostPerMinute ==
    (TM_Returned /\ result.success /\ result.duration # NoneNum) =>
        result.cost_estimate * 10 = result.duration[1]

\* C24: the enhancement step passes the raw transcript through: for a raw
\* transcript of any length the transcript of a successful result is the
\* text the endpoint returned, character for character, enhanced_sections
\* is empty, and the only network call of the invocation is the
\* speech-to-text request
C24_EnhancementIsIdentity ==
    (TM_Returned /\ result.success) =>
        /\ stt_call.status = "ok"
        /\ result.transcript = stt_call.text
        /\ Len(result.transcript) = Len(stt_call.text)
        /\ result.enhanced_sections = <<>>
        /\ trace = <<"exists", "stat", "open", "stt">>

\* A transcript longer than 8000 characters came back whole
C24_Witness ==
    /\ TM_Returned /\ result.success
    /\ Len(stt_call.text) > 8000
    /\ Len(result.transcript) = Len(stt_call.text)
    /\ meeting_info.jurisdiction = "Durham"

\* C26: the size ceiling is exclusive: a file of exactly 26,214,400 bytes
\* is not rejected as too large and goes on to the transcription step (the
\* file is opened and, unless the open raises, sent to the endpoint); a
\* file is rejected as too large only if it is strictly larger
C26_CeilingExclusive ==
    (TM_Returned /\ fileExists) =>
        /\ fileSize = 26214400 =>
              /\ "suggestion" \notin DOMAIN result
              /\ "open" \in Range(trace)
              /\ Calls("stt") = 1 \/ (result.success = FALSE /\ stt_call = NoCall)
        /\ "suggestion" \in DOMAIN result => fileSize > 26214400

\* A file of exactly the ceiling was transcribed
C26_Witness ==
    /\ TM_Returned /\ fileExists /\ fileSize = 26214400
    /\ result.success /\ Calls("stt") = 1

\* C27: when the endpoint answers without a duration, transcribe_meeting
\* returns success=true with a cost_estimate of exactly 0 and a null
\* duration; the missing duration never gives a failure result
C27_NoDurationNoCost ==
    (TM_Returned /\ stt_call.status = "ok" /\ transcript_result.duration = NoneNum) =>
        /\ result.success = TRUE
        /\ result.cost_estimate = 0
        /\ result.duration = NoneNum

\* The endpoint answered with a text and no duration
C27_Witness ==
    /\ TM_Returned /\ stt_call.status = "ok"
    /\ transcript_result.duration = NoneNum
    /\ result.cost_estimate = 0
    /\ result.transcript = "item one approved"

\* The generation requests of a newsletter run
SectionCalls == {i \in 1..Len(trace) : trace[i] \in SectionKeys}

\* C25: no stage retries. An invocation of transcribe_meeting issues at
\* most one speech-to-text request; an invocation of analyze_transcript
\* issues exactly one text-generation request, also when the call raises
\* or the answer is malformed; a newsletter run issues exactly one
\* generation request per gated-in section and none for the others,
\* between 3 and 5 in all.
C25_NoRetries ==
    /\ op = "transcribe_meeting" => Calls("stt") <= 1
    /\ AT_Returned => (Calls("chat") = 1 /\ Len(sent) = 1)
    /\ op = "cli_analyze_transcript" => (Calls("chat") <= 1 /\ Len(sent) <= 1)
    /\ op = "generate_newsletter_content" =>
          /\ \A k \in SectionKeys : Calls(k) <= 1
          /\ NL_ReturnedSections =>
                /\ \A k \in SectionKeys :
                      Calls(k) = IF k \in GatedIn THEN 1 ELSE 0
                /\ Cardinality(SectionCalls) \in 3..5

\* The analysis got an answer that is no JSON document and asked once
C25_Witness ==
    /\ AT_Returned
    /\ chat_call.kind = "unparseable"
    /\ Calls("chat") = 1
    /\ result.success = TRUE

\* C28: the success of process_meeting_file is true exactly when both the
\* transcription and the analysis succeeded. On a transcription failure
\* the result is the transcription's failure result, unchanged; otherwise
\* the result's success is the analysis result's, its transcript is the
\* transcription's output and its transcription_error is null.
C28_SuccessIffBoth ==
    PM_Delivered =>
        /\ result.success <=> (pm_transcript_result.success /\ ~AnalysisFailedInRun)
        /\ ~pm_transcript_result.success =>
              /\ result = pm_transcript_result
              /\ result \in {FileNotFound(file_path), _handle_large_file(fileSize),
                             transcript_result}
              /\ chat_call = NoChat
        /\ pm_transcript_result.success =>
              /\ chat_call # NoChat
              /\ result.success <=> ~AnalysisFailedInRun
              /\ result.transcript = pm_transcript_result.transcript
              /\ result.transcript = stt_call.text
              /\ result.errors.transcription_error = NoneMsg

\* The transcription succeeded and the analysis call raised
C28_Witness ==
    /\ PM_Delivered
    /\ pm_transcript_result.success
    /\ chat_call.status = "raised"
    /\ result.success = FALSE
    /\ result.transcript = "item one approved"
    /\ result.errors.transcription_error = NoneMsg

\* C29: a section that is in the mapping with empty or null content is
\* left out of the saved newsletter and of the display, the sections that
\* are always attempted included; every section written is a heading, its
\* content and a horizontal rule, in that order; the file ends with the
\* line that carries the generation timestamp.
C29_EmptySectionOmitted ==
    NL_ReturnedSections =>
        /\ \A k \in SectionKeys :
              (InSections(result, k) /\ ~ContentTruthy(SectionGet(result, k))) =>
                  /\ \A i \in 1..Len(newsletter_file) : newsletter_file[i].key # k
                  /\ \A i \in 1..Len(display) : display[i].key # k
        /\ \A i \in 1..Len(newsletter_file) :
              LET b == newsletter_file[i]
              IN /\ b.kind = "heading" =>
                       /\ i + 2 <= Len(newsletter_file)
                       /\ newsletter_file[i + 1] =
                              Block("content", b.key, SectionGet(result, b.key))
                       /\ newsletter_file[i + 2] = Block("rule", b.key, <<"---">>)
                 /\ b.kind = "content" =>
                       newsletter_file[i - 1].kind = "heading" /\ ContentTruthy(b.text)
                 /\ b.kind = "rule" => newsletter_file[i - 1].kind = "content"
        /\ newsletter_file[Len(newsletter_file)] =
               Block("footer", "", <<"*Generated by PermitRDU AI on ", Now, "*">>)

\* The executive summary came back null and market intelligence empty:
\* both are in the mapping and neither is in the file, which holds the
\* regulatory watch
C29_Witness ==
    /\ NL_ReturnedSections
    /\ InSections(result, "executive_summary")
    /\ SectionGet(result, "executive_summary") = NoneContent
    /\ SectionGet(result, "market_intelligence") = <<>>
    /\ HeadingKeys(newsletter_file) = <<"regulatory_watch">>
    /\ HeadingKeys(display) = <<"regulatory_watch">>

\* C30: whenever the extraction returns success=true its analysis is a
\* mapping, the parsed record or the record that holds only raw_analysis;
\* it is never a list, a string, a number or null, so that the lookups of
\* projects and key_people and the display are defined on it.
C30_AnalysisIsMapping ==
    (AT_Returned /\ result.success) =>
        /\ result.analysis.t = "dict"
        /\ result.analysis \in {chat_call.data, RawOnly(chat_call.content)}

\* The type of every state
TypeOK ==
    /\ pc \in {"idle", "returned", "raised", "handle", "tm_exists", "tm_size",
               "tm_transcribe", "tm_enhance", "at_request", "cli_read", "cli_key",
               "cli_request", "nl_load", "nl_key", "nl_pipeline", "nl_market",
               "nl_regulatory", "nl_people", "nl_summary", "nl_output",
               "pm_transcribe", "pm_analyze", "run_env", "run_file",
               "run_process", "run_result", "gs_first", "gs_second"}
    /\ Cardinality(written) <= MaxDownloads

====
